---- MODULE Spec2Model ----
(***************************************************************************)
(* Report synthesis of SpecMate (src/utils/report.ts, carried in README.md) *)
(* generateMarkdownReport, buildPDFDocument and the derived consultant and  *)
(* supplier generators, as a state machine over one Analysis.               *)
(*                                                                          *)
(* Text is modelled as sequences of tokens, so that template literals are   *)
(* concatenations and split()/parseInt() are computed.  Lengths on the page *)
(* are in half millimetres (a font size s advances the cursor by s * 0.5    *)
(* mm, i.e. by s half millimetres).                                         *)
(***************************************************************************)
EXTENDS Integers, Sequences, FiniteSets, TLC

VARIABLES
    analysis,    \* the Analysis handed to the renderers
    mdOut,       \* <<>> or <<report>>: result of generateMarkdownReport
    pdfState,    \* "idle", "running", "decoding", "done": buildPDFDocument
    imgState,    \* "unset", "pending", "loaded", "failed": the promise on img
    pdfOps,      \* statements of the running buildPDFDocument call
    pdfPc,       \* index of its next statement
    yPos,        \* vertical cursor of buildPDFDocument
    numPages,    \* doc.getNumberOfPages()
    pdfOut,      \* content emitted into the document so far
    lastDraw,    \* what the latest statement drew: records [page, y, h]
    footers,     \* footer stamps <<page, total>> written so far
    calls,       \* concurrent buildPDFDocument calls: call id -> its locals
    modal,       \* the ReportModal component showing the preview
    gen,         \* a call of the derived-entity generator: arguments and outcome
    download     \* the Download button of ReportModal: its handleDownload calls

vars == <<analysis, mdOut, pdfState, imgState, pdfOps, pdfPc, yPos, numPages, pdfOut,
          lastDraw, footers, calls, modal, gen, download>>

-----------------------------------------------------------------------------
(* Bounds of the model *)

MaxMaterials == 2

MaxLines == 2

\* changes of the analysis prop while the modal is open
MaxChanges == 3

\* largest width and height of a decoded image, in half millimetres
MaxPixels == 200

\* presses of the Download button while the modal is open
MaxDownloads == 3

-----------------------------------------------------------------------------
(* Generic helpers *)

Range(s) == {s[i] : i \in 1..Len(s)}

Min(a, b) == IF a < b THEN a ELSE b

Take(s, n) == SubSeq(s, 1, Min(n, Len(s)))

RECURSIVE FlattenRange(_, _, _)
FlattenRange(ss, lo, hi) ==
    IF lo > hi THEN <<>>
    ELSE IF lo = hi THEN ss[lo]
    ELSE LET mid == (lo + hi) \div 2
         IN  FlattenRange(ss, lo, mid) \o FlattenRange(ss, mid + 1, hi)

\* the concatenation of a sequence of sequences
Flatten(ss) == FlattenRange(ss, 1, Len(ss))

RECURSIVE Dedupe(_)
\* [...new Set(xs)]: first occurrences, in insertion order
Dedupe(xs) ==
    IF xs = <<>> THEN <<>>
    ELSE LET init == Dedupe(SubSeq(xs, 1, Len(xs) - 1))
             x == xs[Len(xs)]
         IN  IF x \in Range(init) THEN init ELSE Append(init, x)

Map(s, F(_)) == [i \in 1..Len(s) |-> F(s[i])]

SeqsUpTo(S, n) == UNION {[1..k -> S] : k \in 0..n}

-----------------------------------------------------------------------------
(* Materials and their division keys *)

\* `${material.csiNumber} - ${material.csiDivision}`
DivisionKey(m) == m.csiNumber \o <<" - ">> \o <<m.csiDivision>>

RECURSIVE SplitFirst(_)
\* key.split(' - ')[0]
SplitFirst(key) ==
    IF key = <<>> \/ Head(key) = " - " THEN <<>>
    ELSE <<Head(key)>> \o SplitFirst(Tail(key))

DigitValue ==
    [d \in {"0", "1", "2", "3", "4", "5", "6", "7", "8", "9"} |->
        CASE d = "0" -> 0 [] d = "1" -> 1 [] d = "2" -> 2 [] d = "3" -> 3
          [] d = "4" -> 4 [] d = "5" -> 5 [] d = "6" -> 6 [] d = "7" -> 7
          [] d = "8" -> 8 [] d = "9" -> 9]

RECURSIVE ParseInt(_)
\* parseInt of a string of decimal digits
ParseInt(digits) ==
    IF digits = <<>> THEN 0
    ELSE 10 * ParseInt(SubSeq(digits, 1, Len(digits) - 1))
            + DigitValue[digits[Len(digits)]]

DivisionNumber(key) == ParseInt(SplitFirst(key))

\* Object.keys(groupedByDivision): keys in order of first insertion
GroupKeys(materials) == Dedupe(Map(materials, DivisionKey))

GroupBucketByNumber(materials, key) ==
    SelectSeq(materials, LAMBDA m : m.csiNumber = SplitFirst(key))

\* groupedByDivision[key] as filled by materials.forEach
GroupBucket(materials, key) == SelectSeq(materials, LAMBDA m : DivisionKey(m) = key)

RECURSIVE InsertKeyUnstable(_, _)
InsertKeyUnstable(sorted, k) ==
    IF sorted = <<>> THEN <<k>>
    ELSE IF DivisionNumber(Head(sorted)) >= DivisionNumber(k)
         THEN <<k>> \o sorted
         ELSE <<Head(sorted)>> \o InsertKeyUnstable(Tail(sorted), k)

RECURSIVE InsertKey(_, _)
\* place k after every key whose number is not greater (numA - numB <= 0)
InsertKey(sorted, k) ==
    IF sorted = <<>> THEN <<k>>
    ELSE IF DivisionNumber(Head(sorted)) - DivisionNumber(k) > 0
         THEN <<k>> \o sorted
         ELSE <<Head(sorted)>> \o InsertKey(Tail(sorted), k)

RECURSIVE SortDivisionKeys(_)
\* Object.keys(...).sort((a, b) => numA - numB); Array.prototype.sort is stable
SortDivisionKeys(keys) ==
    IF keys = <<>> THEN <<>>
    ELSE InsertKey(SortDivisionKeys(SubSeq(keys, 1, Len(keys) - 1)), keys[Len(keys)])

RECURSIVE InsertByTierUnstable(_, _)
InsertByTierUnstable(sorted, m) ==
    IF sorted = <<>> THEN <<m>>
    ELSE IF Head(sorted).tier >= m.tier
         THEN <<m>> \o sorted
         ELSE <<Head(sorted)>> \o InsertByTierUnstable(Tail(sorted), m)

RECURSIVE InsertByTier(_, _)
InsertByTier(sorted, m) ==
    IF sorted = <<>> THEN <<m>>
    ELSE IF Head(sorted).tier - m.tier > 0
         THEN <<m>> \o sorted
         ELSE <<Head(sorted)>> \o InsertByTier(Tail(sorted), m)

RECURSIVE SortByTier(_)
\* groupedByDivision[key].sort((a, b) => a.tier - b.tier)
SortByTier(ms) ==
    IF ms = <<>> THEN <<>>
    ELSE InsertByTier(SortByTier(SubSeq(ms, 1, Len(ms) - 1)), ms[Len(ms)])

\* The arrays that exist while generateMarkdownReport groups and sorts: the
\* input array analysis.materials under the name <<"materials">> and one new
\* array groupedByDivision[key] per division key, filled by push.
GroupingHeap(materials) ==
    [id \in {<<"materials">>} \cup Range(GroupKeys(materials)) |->
        IF id = <<"materials">> THEN materials ELSE GroupBucket(materials, id)]

SortedInPlaceWithInput(materials) == {<<"materials">>} \cup Range(GroupKeys(materials))

\* the arrays that divisionKeys.forEach((key) => groupedByDivision[key].sort(...))
\* sorts in place
SortedInPlace(materials) == Range(GroupKeys(materials))

\* the arrays after the in-place sorts
SortedHeap(materials) ==
    LET heap == GroupingHeap(materials)
    IN  [id \in DOMAIN heap |->
            IF id \in SortedInPlace(materials) THEN SortByTier(heap[id]) ELSE heap[id]]

\* analysis.materials as generateMarkdownReport leaves it
MaterialsAfterMarkdown(materials) == SortedHeap(materials)[<<"materials">>]

TierFilterUpTo(ms, t) == SelectSeq(ms, LAMBDA m : m.tier <= t)

\* materials.filter((m) => m.tier === t)
TierFilter(ms, t) == SelectSeq(ms, LAMBDA m : m.tier = t)

\* [...new Set(ms.map(m => m.csiDivision))]
DistinctDivisions(ms) == Dedupe(Map(ms, LAMBDA m : m.csiDivision))

-----------------------------------------------------------------------------
(* Derived-entity generator *)

divisionToSpecialty ==
    [d \in {"Concrete", "Masonry", "Metals", "Wood, Plastics, and Composites",
            "Thermal and Moisture Protection", "Openings", "Finishes",
            "Specialties", "Special Construction", "Fire Suppression",
            "Plumbing", "HVAC", "Electrical", "Exterior Improvements"} |->
        CASE d = "Concrete" ->
                <<"Structural Engineering", "Concrete Technology", "Materials Science">>
          [] d = "Masonry" ->
                <<"Masonry Engineering", "Structural Engineering", "Historic Preservation">>
          [] d = "Metals" ->
                <<"Structural Engineering", "Metallurgy", "Fabrication Engineering">>
          [] d = "Wood, Plastics, and Composites" ->
                <<"Structural Engineering", "Wood Technology", "Composite Materials">>
          [] d = "Thermal and Moisture Protection" ->
                <<"Building Envelope", "Moisture Control", "Energy Efficiency">>
          [] d = "Openings" ->
                <<"Fenestration Engineering", "Building Envelope", "Daylighting Design">>
          [] d = "Finishes" ->
                <<"Interior Design", "Acoustics", "Fire Safety Engineering">>
          [] d = "Specialties" ->
                <<"Specialty Engineering", "Custom Fabrication", "Product Development">>
          [] d = "Special Construction" ->
                <<"Specialty Engineering", "Innovation Consulting", "R&D">>
          [] d = "Fire Suppression" ->
                <<"Fire Protection Engineering", "Life Safety", "Code Compliance">>
          [] d = "Plumbing" ->
                <<"Plumbing Engineering", "Mechanical Engineering", "Water Systems">>
          [] d = "HVAC" ->
                <<"Mechanical Engineering", "Energy Efficiency", "Indoor Air Quality">>
          [] d = "Electrical" ->
                <<"Electrical Engineering", "Lighting Design", "Power Systems">>
          [] d = "Exterior Improvements" ->
                <<"Landscape Architecture", "Site Engineering", "Hardscape Design">>]

\* divisionToSpecialty[div] || ['General Consulting']
SpecialtiesOf(div) ==
    IF div \in DOMAIN divisionToSpecialty THEN divisionToSpecialty[div]
    ELSE <<"General Consulting">>

\* the Set filled by divisions.forEach(... specialties.add(spec)), as an array
specialtyArray(divisions) == Dedupe(Flatten(Map(divisions, SpecialtiesOf)))

ConsultantCapThree(tier) == CASE tier = 1 -> 3 [] tier = 2 -> 3 [] tier = 3 -> 3

ConsultantCap(tier) == CASE tier = 1 -> 3 [] tier = 2 -> 4 [] tier = 3 -> 5

ConsultantNames(tier) ==
    CASE tier = 1 -> <<"Dr. Sarah Chen", "Dr. Michael Rodriguez", "Dr. Jennifer Thompson">>
      [] tier = 2 -> <<"James Anderson", "Patricia Martinez", "Robert Wilson", "Linda Garcia">>
      [] tier = 3 -> <<"Prof. David Lee", "Prof. Elizabeth Brown",
                       "Prof. Christopher Davis", "Prof. Maria Miller", "Prof. Daniel Taylor">>

\* one consultants.push({...}) of the tier's branch; index counts from 0
ConsultantEntry(specialty, index, tier) ==
    [name        |-> ConsultantNames(tier)[(index % ConsultantCap(tier)) + 1],
     firm        |-> <<specialty,
                       CASE tier = 1 -> "Associates"
                         [] tier = 2 -> "Custom Solutions"
                         [] tier = 3 -> "Innovation Lab">>,
     specialty   |-> CASE tier = 1 -> <<specialty>>
                       [] tier = 2 -> <<specialty, "& Custom Fabrication">>
                       [] tier = 3 -> <<specialty, "R&D & Advanced Materials">>,
     phone       |-> <<555, (100 + 100 * tier) + index, 1000 * tier + index>>,
     disciplines |-> CASE tier = 1 -> <<specialty>>
                       [] tier = 2 -> <<specialty, "Custom Fabrication">>
                       [] tier = 3 -> <<specialty, "Materials R&D", "Innovation Consulting">>]

getConsultantsForDivisions(divisions, tier) ==
    LET chosen == Take(specialtyArray(divisions), ConsultantCap(tier))
    IN  [i \in 1..Len(chosen) |-> ConsultantEntry(chosen[i], i - 1, tier)]

divisionToSupplierType ==
    [d \in {"Concrete", "Masonry", "Metals", "Wood, Plastics, and Composites",
            "Thermal and Moisture Protection", "Openings", "Finishes", "Specialties"} |->
        CASE d = "Concrete" -> <<"Ready-Mix Concrete", "Precast Concrete", "Concrete Products">>
          [] d = "Masonry" -> <<"Brick & Block", "Stone Suppliers", "Masonry Products">>
          [] d = "Metals" -> <<"Steel Fabricators", "Metal Suppliers", "Architectural Metals">>
          [] d = "Wood, Plastics, and Composites" ->
                <<"Lumber Suppliers", "Composite Materials", "Engineered Wood">>
          [] d = "Thermal and Moisture Protection" ->
                <<"Roofing Materials", "Insulation", "Waterproofing">>
          [] d = "Openings" -> <<"Windows & Doors", "Glazing Systems", "Hardware">>
          [] d = "Finishes" -> <<"Flooring", "Wall Finishes", "Ceiling Systems">>
          [] d = "Specialties" ->
                <<"Custom Fabrication", "Specialty Products", "Architectural Elements">>]

SupplierTypesOfNoFallback(division) ==
    IF division \in DOMAIN divisionToSupplierType THEN divisionToSupplierType[division]
    ELSE <<>>

\* divisionToSupplierType[division] || ['General Building Materials']
SupplierTypesOf(division) ==
    IF division \in DOMAIN divisionToSupplierType THEN divisionToSupplierType[division]
    ELSE <<"General Building Materials">>

RECURSIVE SplitComma(_)
\* jurisdiction.split(',')[0]
SplitComma(text) ==
    IF text = <<>> \/ Head(text) = "," THEN <<>>
    ELSE <<Head(text)>> \o SplitComma(Tail(text))

RECURSIVE TrimStart(_)
TrimStart(text) ==
    IF text # <<>> /\ Head(text) = " " THEN TrimStart(Tail(text)) ELSE text

RECURSIVE TrimEnd(_)
TrimEnd(text) ==
    IF text # <<>> /\ text[Len(text)] = " "
    THEN TrimEnd(SubSeq(text, 1, Len(text) - 1)) ELSE text

Trim(text) == TrimEnd(TrimStart(text))

\* location.jurisdiction ? location.jurisdiction.split(',')[0]?.trim() || 'Local Area'
\*                       : 'Local Area'
Region(location) ==
    IF location.jurisdiction # <<>>
    THEN IF Trim(SplitComma(location.jurisdiction)) # <<>>
         THEN Trim(SplitComma(location.jurisdiction))
         ELSE <<"Local Area">>
    ELSE <<"Local Area">>

SupplierFirstNames == <<"John", "Sarah", "Michael", "Emily">>

\* one suppliers.push({...}) of the local loop; index and typeIndex count from 0
LocalSupplier(division, index, supplierType, typeIndex, region) ==
    [name          |-> SupplierFirstNames[((index + typeIndex) % 4) + 1],
     company       |-> region \o <<" ", supplierType>>,
     location      |-> region,
     materialTypes |-> <<division>>,
     phone         |-> <<555 + index, 200 + typeIndex, 1000 + index>>,
     rating        |-> "local",
     specialties   |-> <<supplierType, division>>]

NationalFirstNames == <<"David", "Jennifer", "Robert">>

NationalSupplier(division, index) ==
    [name          |-> NationalFirstNames[(index % 3) + 1],
     company       |-> <<"National", " ", SupplierTypesOf(division)[1], " ", "Solutions">>,
     location      |-> <<"National Distribution">>,
     materialTypes |-> <<division>>,
     phone         |-> <<800, 555 + index, 1000 + index>>,
     rating        |-> "national",
     specialties   |-> <<SupplierTypesOf(division)[1], "Premium Products", "Custom Solutions">>]

getSuppliersForMaterialsFromThree(materials, location, tier) ==
    LET materialTypes == DistinctDivisions(materials)
        region == Region(location)
        localFor(i) ==
            LET types == Take(SupplierTypesOf(materialTypes[i]), 2)
            IN  [j \in 1..Len(types) |->
                    LocalSupplier(materialTypes[i], i - 1, types[j], j - 1, region)]
        locals == Flatten([i \in 1..Len(materialTypes) |-> localFor(i)])
        nationalFor == Take(materialTypes, 3)
        nationals ==
            IF tier = 2 \/ Len(materialTypes) >= 3
            THEN [i \in 1..Len(nationalFor) |-> NationalSupplier(nationalFor[i], i - 1)]
            ELSE <<>>
    IN  locals \o nationals

getSuppliersForMaterials(materials, location, tier) ==
    LET materialTypes == DistinctDivisions(materials)
        region == Region(location)
        localFor(i) ==
            LET types == Take(SupplierTypesOf(materialTypes[i]), 2)
            IN  [j \in 1..Len(types) |->
                    LocalSupplier(materialTypes[i], i - 1, types[j], j - 1, region)]
        locals == Flatten([i \in 1..Len(materialTypes) |-> localFor(i)])
        nationalFor == Take(materialTypes, 3)
        nationals ==
            IF tier = 2 \/ Len(materialTypes) > 3
            THEN [i \in 1..Len(nationalFor) |-> NationalSupplier(nationalFor[i], i - 1)]
            ELSE <<>>
    IN  locals \o nationals

-----------------------------------------------------------------------------
(* Markdown renderer.  A report is the sequence of the blocks it consists  *)
(* of, each a record tagged with its kind.                                  *)

BriefTextLimit == 500

HasLocation(a) == a.location # <<>>

HasBrief(a) == a.brief # <<>>

generateMaterialSectionAlways(material, includeSustainability, includeAlternatives, includeCodeCompliance) ==
    [kind           |-> "material",
     name           |-> material.name,
     csi            |-> DivisionKey(material),
     properties     |-> material.properties,
     sustainability |-> includeSustainability /\ material.sustainabilityNotes,
     codeCompliance |-> includeCodeCompliance /\ material.codeCompliance,
     alternatives   |-> material.alternatives]

\* the fields of one material section; alternatives is the number of
\* alternatives listed, 0 when the block is left out
generateMaterialSection(material, includeSustainability, includeAlternatives, includeCodeCompliance) ==
    [kind           |-> "material",
     name           |-> material.name,
     csi            |-> DivisionKey(material),
     properties     |-> material.properties,
     sustainability |-> includeSustainability /\ material.sustainabilityNotes,
     codeCompliance |-> includeCodeCompliance /\ material.codeCompliance,
     alternatives   |-> IF includeAlternatives /\ material.alternatives > 0
                        THEN material.alternatives ELSE 0]

generateConsultantEntry(consultant, tier) ==
    [kind |-> "consultant", tier |-> tier, entry |-> consultant]

\* block is the tier of the sub-block, 0 for the national sub-block
generateSupplierEntry(supplier, block) ==
    [kind |-> "supplier", tier |-> block, entry |-> supplier]

MdHeader(a) ==
    <<[kind |-> "title"], [kind |-> "generated"]>>
    \o (IF Len(a.imageUrls) > 1 THEN <<[kind |-> "imageCount", n |-> Len(a.imageUrls)]>> ELSE <<>>)

MdBrief(a) ==
    IF HasBrief(a)
    THEN <<[kind |-> "brief"]>>
         \o (IF a.brief[1].intent # <<>> THEN <<[kind |-> "briefIntent"]>> ELSE <<>>)
         \o (IF a.brief[1].textLen > 0 /\ a.brief[1].textLen < BriefTextLimit
             THEN <<[kind |-> "briefText"]>> ELSE <<>>)
    ELSE <<>>

MdLocationLines(loc, codeKind) ==
    (IF loc.jurisdiction # <<>> THEN <<[kind |-> "jurisdiction"]>> ELSE <<>>)
    \o (IF loc.buildingCode THEN <<[kind |-> codeKind]>> ELSE <<>>)

MdLocation(a) ==
    IF HasLocation(a)
    THEN <<[kind |-> "location"]>> \o MdLocationLines(a.location[1], "buildingCode")
    ELSE <<>>

MdSummary(a) ==
    <<[kind  |-> "summary",
       total |-> Len(a.materials),
       tier1 |-> Len(TierFilter(a.materials, 1)),
       tier2 |-> Len(TierFilter(a.materials, 2)),
       tier3 |-> Len(TierFilter(a.materials, 3))],
      [kind |-> "materialsHeading"]>>

MdDivisionTier2First(a, divisionKey) ==
    LET divisionMaterials == SortByTier(GroupBucket(a.materials, divisionKey))
        tierBlock(t) ==
            LET ms == TierFilter(divisionMaterials, t)
            IN  IF Len(ms) > 0
                THEN <<[kind |-> "tierHeading", tier |-> t]>>
                     \o [i \in 1..Len(ms) |->
                            generateMaterialSection(ms[i], a.includeSustainability,
                                a.includeAlternatives, HasLocation(a))]
                ELSE <<>>
    IN  <<[kind |-> "division", key |-> divisionKey]>>
        \o tierBlock(2) \o tierBlock(1) \o tierBlock(3)

\* one pass of divisionKeys.forEach((divisionKey) => ...)
MdDivision(a, divisionKey) ==
    LET divisionMaterials == SortByTier(GroupBucket(a.materials, divisionKey))
        tierBlock(t) ==
            LET ms == TierFilter(divisionMaterials, t)
            IN  IF Len(ms) > 0
                THEN <<[kind |-> "tierHeading", tier |-> t]>>
                     \o [i \in 1..Len(ms) |->
                            generateMaterialSection(ms[i], a.includeSustainability,
                                a.includeAlternatives, HasLocation(a))]
                ELSE <<>>
    IN  <<[kind |-> "division", key |-> divisionKey]>>
        \o tierBlock(1) \o tierBlock(2) \o tierBlock(3)

MdDivisions(a) ==
    LET divisionKeys == SortDivisionKeys(GroupKeys(a.materials))
    IN  Flatten([i \in 1..Len(divisionKeys) |-> MdDivision(a, divisionKeys[i])])

\* the roll-up of one tier: Object.keys(tierNByDivision) is in insertion order
MdTierSummary(a, t) ==
    LET ms == TierFilter(a.materials, t)
        keys == GroupKeys(ms)
    IN  IF Len(ms) > 0
        THEN <<[kind |-> "summaryTier", tier |-> t, n |-> Len(ms)]>>
             \o [i \in 1..Len(keys) |->
                    [kind  |-> "summaryLine",
                     tier  |-> t,
                     key   |-> keys[i],
                     names |-> Map(GroupBucket(ms, keys[i]), LAMBDA m : m.name)]]
        ELSE <<>>

MdSummaryByTier(a) ==
    <<[kind |-> "summaryByTier"]>>
    \o MdTierSummary(a, 1) \o MdTierSummary(a, 2) \o MdTierSummary(a, 3)

MdCodeCompliance(a) ==
    IF HasLocation(a)
    THEN <<[kind |-> "codeCompliance"]>> \o MdLocationLines(a.location[1], "applicableCodes")
    ELSE <<>>

MdRecommendations(a) ==
    <<[kind |-> "recommendations"]>>
    \o (IF HasLocation(a) THEN <<[kind |-> "recLocation"]>> ELSE <<>>)
    \o (IF a.includeAlternatives THEN <<[kind |-> "recAlternatives"]>> ELSE <<>>)

MdConsultantsTierAlways(a, t) ==
    LET ms == TierFilter(a.materials, t)
        consultants == getConsultantsForDivisions(DistinctDivisions(ms), t)
    IN  <<[kind |-> "consultantTier", tier |-> t]>>
        \o [i \in 1..Len(consultants) |-> generateConsultantEntry(consultants[i], t)]

MdConsultantsTier(a, t) ==
    LET ms == TierFilter(a.materials, t)
        consultants == getConsultantsForDivisions(DistinctDivisions(ms), t)
    IN  IF Len(ms) > 0
        THEN <<[kind |-> "consultantTier", tier |-> t]>>
             \o [i \in 1..Len(consultants) |-> generateConsultantEntry(consultants[i], t)]
        ELSE <<>>

MdConsultants(a) ==
    <<[kind |-> "consultantsAppendix"]>>
    \o MdConsultantsTier(a, 1) \o MdConsultantsTier(a, 2) \o MdConsultantsTier(a, 3)

\* allSuppliers.filter(s => s.rating === 'national')
NationalSuppliers(a) ==
    LET tier1 == TierFilter(a.materials, 1)
        tier2 == TierFilter(a.materials, 2)
        allSuppliers ==
            (IF Len(tier1) > 0 THEN getSuppliersForMaterials(tier1, a.location[1], 1)
             ELSE <<>>)
            \o (IF Len(tier2) > 0 THEN getSuppliersForMaterials(tier2, a.location[1], 2)
                ELSE <<>>)
    IN  SelectSeq(allSuppliers, LAMBDA s : s.rating = "national")

MdSuppliersTier(a, t) ==
    LET ms == TierFilter(a.materials, t)
        suppliers == getSuppliersForMaterials(ms, a.location[1], t)
    IN  IF Len(ms) > 0
        THEN <<[kind |-> "supplierTier", tier |-> t]>>
             \o (IF Len(suppliers) > 0
                 THEN [i \in 1..Len(suppliers) |-> generateSupplierEntry(suppliers[i], t)]
                 ELSE <<[kind |-> "noLocalSuppliers", tier |-> t]>>)
        ELSE <<>>

MdSuppliersAnyTier(a) ==
    IF Len(a.materials) > 0 /\ HasLocation(a)
    THEN <<[kind |-> "suppliersAppendix"]>>
         \o MdSuppliersTier(a, 1) \o MdSuppliersTier(a, 2)
         \o (LET nationalSuppliers == NationalSuppliers(a)
             IN  IF Len(nationalSuppliers) > 0
                 THEN <<[kind |-> "nationalSuppliers"]>>
                      \o [i \in 1..Len(nationalSuppliers) |->
                             generateSupplierEntry(nationalSuppliers[i], 0)]
                 ELSE <<>>)
    ELSE <<>>

MdSuppliers(a) ==
    IF (Len(TierFilter(a.materials, 1)) > 0 \/ Len(TierFilter(a.materials, 2)) > 0)
       /\ HasLocation(a)
    THEN <<[kind |-> "suppliersAppendix"]>>
         \o MdSuppliersTier(a, 1) \o MdSuppliersTier(a, 2)
         \o (LET nationalSuppliers == NationalSuppliers(a)
             IN  IF Len(nationalSuppliers) > 0
                 THEN <<[kind |-> "nationalSuppliers"]>>
                      \o [i \in 1..Len(nationalSuppliers) |->
                             generateSupplierEntry(nationalSuppliers[i], 0)]
                 ELSE <<>>)
    ELSE <<>>

generateMarkdownReportLocationFirst(a) ==
    MdHeader(a) \o MdLocation(a) \o MdBrief(a) \o MdSummary(a) \o MdDivisions(a)
    \o MdSummaryByTier(a) \o MdCodeCompliance(a) \o MdRecommendations(a)
    \o MdConsultants(a) \o MdSuppliers(a) \o <<[kind |-> "attribution"]>>

generateMarkdownReport(a) ==
    MdHeader(a) \o MdBrief(a) \o MdLocation(a) \o MdSummary(a) \o MdDivisions(a)
    \o MdSummaryByTier(a) \o MdCodeCompliance(a) \o MdRecommendations(a)
    \o MdConsultants(a) \o MdSuppliers(a) \o <<[kind |-> "attribution"]>>

-----------------------------------------------------------------------------
(* Paginated renderer.  buildPDFDocument is a straight-line program over   *)
(* the cursor yPos; it is modelled as the sequence of its statements, each  *)
(* statement a sequence of primitive operations:                            *)
(*   check h : checkNewPage(h)                                              *)
(*   draw h  : doc.text / doc.addImage at the cursor, occupying h           *)
(*   inc h   : yPos += h                                                    *)
(*   mark b  : the content block b is being emitted                         *)

\* millimetres to half millimetres
Mm(x) == 2 * x

pageHeight == Mm(297)

margin == Mm(20)

fontSize == [h1 |-> 24, h2 |-> 20, h3 |-> 16, h4 |-> 14, body |-> 11, small |-> 9]

maxWidth == Mm(80)

maxHeight == Mm(60)

Check(h) == <<[op |-> "check", h |-> h]>>

Draw(h) == <<[op |-> "draw", role |-> "text", h |-> h]>>

\* doc.text(label, margin, yPos) of a label/value field
DrawLabel(h) == <<[op |-> "draw", role |-> "label", h |-> h]>>

\* doc.text of a line of the value of a label/value field
DrawValue(h) == <<[op |-> "draw", role |-> "value", h |-> h]>>

Inc(h) == <<[op |-> "inc", h |-> h]>>

Mark(block) == <<[op |-> "mark", block |-> block]>>

Repeat(n, ops) == Flatten([i \in 1..n |-> ops])

\* lines.forEach: checkNewPage(size * 0.5); doc.text(line, margin, yPos); yPos += size * 0.5
addText(lines, size) == Repeat(lines, Check(size) \o Draw(size) \o Inc(size))

addLabelValueSameLine(valueLines, size) ==
    Check(size) \o DrawLabel(size)
    \o Repeat(valueLines, Check(size) \o DrawValue(size) \o Inc(size))

addLabelValue(valueLines, size) ==
    Check(size) \o DrawLabel(size)
    \o (IF valueLines = 1
        THEN DrawValue(size) \o Inc(size)
        ELSE Inc(size) \o Repeat(valueLines, Check(size) \o DrawValue(size) \o Inc(size)))

addBullet(lines, size) == Repeat(lines, Check(size) \o Draw(size) \o Inc(size))

\* yPos += mm; checkNewPage(mm)
addSpacing(mm) == Inc(Mm(mm)) \o Check(Mm(mm))

\* nameLines.forEach: checkNewPage(6); doc.text(line, margin, yPos); yPos += 6
NameLines(lines) == Repeat(lines, Check(Mm(6)) \o Draw(Mm(6)) \o Inc(Mm(6)))

\* checkNewPage(6); doc.text(heading, ...); yPos += 5
CardHeading == Check(Mm(6)) \o Draw(Mm(5)) \o Inc(Mm(5))

\* the fields addMaterialCard draws; color is tierColors[tier]
PdfMaterialBlock(a, material, tier) ==
    [kind           |-> "material",
     name           |-> material.name,
     csi            |-> DivisionKey(material),
     color          |-> tier,
     properties     |-> material.properties,
     sustainability |-> a.includeSustainability /\ material.sustainabilityNotes,
     codeCompliance |-> HasLocation(a) /\ material.codeCompliance,
     alternatives   |-> IF a.includeAlternatives /\ material.alternatives > 0
                        THEN material.alternatives ELSE 0]

\* the statements of one addMaterialCard(material, tier) call
addMaterialCard(a, material, tier) ==
    LET block == PdfMaterialBlock(a, material, tier)
    IN  <<Mark(block) \o NameLines(1) \o Inc(Mm(2)),
          addSpacing(2),
          addLabelValue(1, fontSize.body),
          addSpacing(2),
          addLabelValue(a.textLines, fontSize.body),
          addSpacing(2),
          CardHeading>>
        \o [i \in 1..material.properties |-> addBullet(1, fontSize.body)]
        \o <<addSpacing(2),
             addLabelValue(a.textLines, fontSize.body),
             addSpacing(2)>>
        \o (IF block.sustainability
            THEN <<addLabelValue(a.textLines, fontSize.body), addSpacing(2)>> ELSE <<>>)
        \o (IF block.codeCompliance
            THEN <<addLabelValue(a.textLines, fontSize.body), addSpacing(2)>> ELSE <<>>)
        \o (IF block.alternatives > 0
            THEN <<CardHeading>>
                 \o Flatten([i \in 1..material.alternatives |->
                        <<addSpacing(2),
                          CardHeading,
                          addLabelValue(a.textLines, fontSize.body),
                          addSpacing(1),
                          addLabelValue(a.textLines, fontSize.body),
                          addSpacing(2)>>])
            ELSE <<>>)

\* a label followed by its value lines at a fixed indent (consultant cards)
FixedLabel(valueLines) ==
    Check(Mm(5)) \o DrawLabel(Mm(5))
    \o Repeat(valueLines, Check(Mm(5)) \o DrawValue(Mm(5)) \o Inc(Mm(5)))

\* label and value drawn on one line without wrapping (email, phone, website)
FixedLine == Check(Mm(5)) \o DrawLabel(Mm(5)) \o DrawValue(Mm(5)) \o Inc(Mm(5))

\* pageWidth - (margin * 2) on A4
contentWidth == Mm(210) - (margin * 2)

\* doc.getTextWidth of the texts the cards are made of, in 1/1000 of the font
\* size: the advance widths of Helvetica summed over the characters (of
\* Helvetica-Bold for the labels); "Long Region" stands for a place name of
\* 90 characters
HelveticaUnits ==
    " " :> 278 @@ "& Custom Fabrication" :> 9614 @@ "(Local)" :> 3056 @@
    "(National)" :> 4334 @@ ", " :> 556 @@ "Acoustics" :> 4279 @@
    "Architectural Elements" :> 10003 @@ "Architectural Metals" :> 8780 @@
    "Associates" :> 4835 @@ "Austin" :> 2779 @@ "Brick & Block" :> 5890 @@
    "Building Envelope" :> 8004 @@ "Ceiling Systems" :> 7168 @@
    "Code Compliance" :> 7947 @@ "Composite Materials" :> 9113 @@ "Concrete" :> 4057 @@
    "Concrete Products" :> 8281 @@ "Concrete Technology" :> 9504 @@
    "Custom Fabrication" :> 8669 @@ "Custom Solutions" :> 7836 @@
    "Daylighting Design" :> 8336 @@ "Electrical" :> 4056 @@
    "Electrical Engineering" :> 9670 @@ "Energy Efficiency" :> 7725 @@
    "Engineered Wood" :> 8004 @@ "Exterior Improvements" :> 10058 @@
    "Fabrication Engineering" :> 10560 @@ "Fenestration Engineering" :> 11172 @@
    "Finishes" :> 3723 @@ "Fire Protection Engineering" :> 12116 @@
    "Fire Safety Engineering" :> 10449 @@ "Fire Suppression" :> 7558 @@
    "Flooring" :> 3612 @@ "General Building Materials" :> 11726 @@
    "General Consulting" :> 8559 @@ "Glazing Systems" :> 7502 @@ "HVAC" :> 2778 @@
    "Hardscape Design" :> 8225 @@ "Hardware" :> 4334 @@ "Historic Preservation" :> 9224 @@
    "Indoor Air Quality" :> 7725 @@ "Innovation Consulting" :> 9616 @@
    "Innovation Lab" :> 6560 @@ "Insulation" :> 4280 @@ "Interior Design" :> 6502 @@
    "Landscape Architecture" :> 10505 @@ "Life Safety" :> 4725 @@
    "Lighting Design" :> 6892 @@ "Local Area" :> 4780 @@ "Lumber Suppliers" :> 7836 @@
    "Masonry" :> 3834 @@ "Masonry Engineering" :> 9448 @@ "Masonry Products" :> 8058 @@
    "Materials R&D" :> 6445 @@ "Materials Science" :> 7891 @@
    "Mechanical Engineering" :> 10671 @@ "Metal Suppliers" :> 6891 @@
    "Metallurgy" :> 4612 @@ "Metals" :> 2945 @@ "Moisture Control" :> 7335 @@
    "National" :> 3668 @@ "National Distribution" :> 8947 @@ "Openings" :> 4280 @@
    "Plumbing" :> 4168 @@ "Plumbing Engineering" :> 9782 @@ "Power Systems" :> 6946 @@
    "Precast Concrete" :> 7725 @@ "Premium Products" :> 8224 @@
    "Product Development" :> 9615 @@ "R&D" :> 2111 @@
    "R&D & Advanced Materials" :> 12115 @@ "Ready-Mix Concrete" :> 9113 @@
    "Roofing Materials" :> 7780 @@ "Site Engineering" :> 7337 @@ "Solutions" :> 4113 @@
    "Special Construction" :> 9170 @@ "Specialties" :> 4835 @@
    "Specialty Engineering" :> 9671 @@ "Specialty Products" :> 8281 @@
    "Steel Fabricators" :> 7558 @@ "Stone Suppliers" :> 7059 @@
    "Structural Engineering" :> 9893 @@ "Thermal Protection" :> 8447 @@
    "Thermal and Moisture Protection" :> 14505 @@ "Unlisted Division" :> 7390 @@
    "Wall Finishes" :> 5945 @@ "Water Systems" :> 6779 @@ "Waterproofing" :> 6280 @@
    "Windows & Doors" :> 7946 @@ "Wood Technology" :> 8059 @@
    "Wood, Plastics, and Composites" :> 14394 @@ "Company: " :> 5167 @@
    "Location: " :> 4778 @@ "Material Types: " :> 7558 @@ "Specialties: " :> 5836 @@
    "Long Region" :> 45000

RECURSIVE TextUnits(_)
TextUnits(text) ==
    IF text = <<>> THEN 0 ELSE HelveticaUnits[Head(text)] + TextUnits(Tail(text))

\* the width of list.join(separator)
JoinedUnits(list, separator) ==
    TextUnits(list) + (Len(list) - 1) * HelveticaUnits[separator]

\* doc.splitTextToSize(value, width).length at the body size: units / 1000 *
\* 11 pt * 25.4 / 72 mm against width half millimetres, both sides scaled to
\* integers; a value that does not fit needs at least width / line lines
SplitLines(units, width) ==
    LET scaled == units * 11 * 254 * 2
        line == width * 720000
    IN  IF scaled <= line THEN 1 ELSE (scaled + line - 1) \div line

\* splitTextToSize(value, contentWidth - labelWidth - 2) of addLabelValue
LabelValueLines(label, units) ==
    LET scaled == units * 11 * 254 * 2
        line == (contentWidth - Mm(2)) * 720000 - HelveticaUnits[label] * 11 * 254 * 2
    IN  IF scaled <= line THEN 1 ELSE (scaled + line - 1) \div line

addConsultantCard(consultant, tier) ==
    <<Mark(generateConsultantEntry(consultant, tier)) \o NameLines(1),
      FixedLabel(SplitLines(JoinedUnits(consultant.firm, " "), contentWidth - Mm(20))),
      FixedLabel(SplitLines(JoinedUnits(consultant.specialty, " "), contentWidth - Mm(25))),
      FixedLine,
      FixedLine,
      FixedLine,
      FixedLabel(SplitLines(JoinedUnits(consultant.disciplines, ", "),
                            contentWidth - Mm(30)))
      \o Inc(Mm(2))>>

\* the e-mail address and the web site repeat the company name without blanks
addSupplierCard(supplier, block) ==
    LET companyLines == LabelValueLines("Company: ", TextUnits(supplier.company))
        locationText ==
            supplier.location
            \o <<" ", IF supplier.rating = "local" THEN "(Local)" ELSE "(National)">>
    IN  <<Mark(generateSupplierEntry(supplier, block)) \o NameLines(1),
          addSpacing(2),
          addLabelValue(companyLines, fontSize.body),
          addLabelValue(LabelValueLines("Location: ", TextUnits(locationText)),
                        fontSize.body),
          addLabelValue(LabelValueLines("Material Types: ",
                                        JoinedUnits(supplier.materialTypes, ", ")),
                        fontSize.body),
          addLabelValue(LabelValueLines("Specialties: ",
                                        JoinedUnits(supplier.specialties, ", ")),
                        fontSize.body),
          addLabelValue(companyLines, fontSize.body),
          addLabelValue(1, fontSize.body),
          addLabelValue(companyLines, fontSize.body),
          addSpacing(3)>>

\* cards.forEach((card, index) => { if (index > 0) addSpacing(5); addCard(card) })
CardList(cards) ==
    Flatten([i \in 1..Len(cards) |->
                (IF i > 1 THEN <<addSpacing(5)>> ELSE <<>>) \o cards[i]])

ClampImageWidthOnly(img) ==
    IF img.width > maxWidth
    THEN [wn |-> maxWidth, wd |-> 1, hn |-> maxWidth * img.height, hd |-> img.width]
    ELSE [wn |-> img.width, wd |-> 1, hn |-> img.height, hd |-> 1]

\* the two clamping steps on the decoded image, in exact arithmetic: the
\* result is wn / wd wide and hn / hd high.  aspectRatio is
\* img.width / img.height, so imgWidth / aspectRatio is
\* maxWidth * img.height / img.width and imgHeight * aspectRatio is
\* maxHeight * img.width / img.height
ClampImage(img) ==
    LET first ==
            IF img.width > maxWidth
            THEN [wn |-> maxWidth, wd |-> 1, hn |-> maxWidth * img.height, hd |-> img.width]
            ELSE [wn |-> img.width, wd |-> 1, hn |-> img.height, hd |-> 1]
    IN  IF first.hn > maxHeight * first.hd
        THEN [wn |-> maxHeight * img.width, wd |-> img.height, hn |-> maxHeight, hd |-> 1]
        ELSE first

\* the clamped image on the half-millimetre grid of the page
ScaleImage(img) ==
    LET size == ClampImage(img)
    IN  [width |-> size.wn \div size.wd, height |-> size.hn \div size.hd]

\* await new Promise(... img.src = imageUrls[0]): <<>> when img.onerror fires,
\* <<[width, height, embeds]>> when the first image loads; embeds tells whether
\* doc.addImage accepts the data or throws
Decode(a) ==
    IF a.imageUrls # <<>> /\ a.imageUrls[1].ok
    THEN <<[width |-> a.imageUrls[1].width, height |-> a.imageUrls[1].height,
            embeds |-> a.imageUrls[1].embeds]>>
    ELSE <<>>

\* the note on further images, written before the first one is decoded
PdfImageCount(a) ==
    IF Len(a.imageUrls) > 1
    THEN <<Mark([kind |-> "imageCount", n |-> Len(a.imageUrls)])
           \o addText(1, fontSize.small) \o Inc(Mm(3))>>
    ELSE <<>>

\* catch (error) { addText('Image could not be included in PDF', ...); yPos += 5 }
PdfImageCatch ==
    Mark([kind |-> "imagePlaceholder"]) \o addText(1, fontSize.small) \o Inc(Mm(5))

PdfEmbedNoPlaceholder(a, decoded) ==
    IF decoded # <<>> /\ decoded[1].embeds
    THEN LET scaled == ScaleImage(decoded[1])
         IN  <<Check(scaled.height + Mm(5))
               \o Mark([kind |-> "image", width |-> scaled.width,
                        height |-> scaled.height,
                        size |-> ClampImage(decoded[1])])
               \o Draw(scaled.height) \o Inc(scaled.height + Mm(5))>>
    ELSE <<>>

\* the try block once the promise has settled: the scaled image, or the
\* placeholder line when the promise rejected or doc.addImage threw (which
\* happens after checkNewPage(imgHeight + 5))
PdfEmbed(a, decoded) ==
    IF decoded # <<>>
    THEN LET scaled == ScaleImage(decoded[1])
         IN  IF decoded[1].embeds
             THEN <<Check(scaled.height + Mm(5))
                    \o Mark([kind |-> "image", width |-> scaled.width,
                             height |-> scaled.height,
                             size |-> ClampImage(decoded[1])])
                    \o Draw(scaled.height) \o Inc(scaled.height + Mm(5))>>
             ELSE <<Check(scaled.height + Mm(5)) \o PdfImageCatch>>
    ELSE <<PdfImageCatch>>

PdfImage(a, decoded) ==
    IF Len(a.imageUrls) > 0
    THEN PdfImageCount(a) \o PdfEmbed(a, decoded)
    ELSE <<>>

PdfLocation(a) ==
    IF HasLocation(a)
    THEN <<addSpacing(5),
           Mark([kind |-> "location"]) \o addText(1, fontSize.h3),
           addLabelValue(1, fontSize.body)>>
         \o (IF a.location[1].jurisdiction # <<>>
             THEN <<Mark([kind |-> "jurisdiction"]) \o addLabelValue(1, fontSize.body)>>
             ELSE <<>>)
         \o (IF a.location[1].buildingCode
             THEN <<Mark([kind |-> "buildingCode"]) \o addLabelValue(1, fontSize.body)>>
             ELSE <<>>)
         \o <<addSpacing(3)>>
    ELSE <<>>

PdfDate ==
    <<addSpacing(5),
      Mark([kind |-> "date"]) \o addText(1, fontSize.h3),
      addText(1, fontSize.body),
      addSpacing(3)>>

\* one line of brief.intent: "label" is a **Label:** value line, "bullet" a
\* "- " line, "plain" any other line; blank lines are filtered out
PdfIntentLine(line) ==
    CASE line = "label"  -> addLabelValue(1, fontSize.body)
      [] line = "bullet" -> addBullet(1, fontSize.body)
      [] OTHER           -> addText(1, fontSize.body)

PdfBrief(a) ==
    <<addSpacing(5),
      Mark([kind |-> "brief"]) \o addText(1, fontSize.h3)>>
    \o (IF HasBrief(a) /\ a.brief[1].intent # <<>>
        THEN LET intentLines == SelectSeq(a.brief[1].intent, LAMBDA l : l # "blank")
             IN  <<Mark([kind |-> "briefIntent"])>>
                 \o [i \in 1..Len(intentLines) |-> PdfIntentLine(intentLines[i])]
        ELSE <<Mark([kind |-> "briefNone"]) \o addText(1, fontSize.body)>>)
    \o <<addSpacing(3)>>

PdfSummary(a) ==
    <<addSpacing(10),
      Mark([kind  |-> "summary",
            tier1 |-> Len(TierFilter(a.materials, 1)),
            tier2 |-> Len(TierFilter(a.materials, 2)),
            tier3 |-> Len(TierFilter(a.materials, 3))])
      \o addText(1, fontSize.h2)>>
    \o Flatten([t \in 1..3 |->
            <<addSpacing(3),
              addText(1, fontSize.h4),
              IF Len(TierFilter(a.materials, t)) > 0
              THEN addText(a.textLines, fontSize.body)
              ELSE addText(1, fontSize.body)>>])
    \o <<addSpacing(5)>>

\* the cards of one tier: tierN.forEach over the input order
PdfCardsTier(a, t) ==
    LET ms == TierFilter(a.materials, t)
    IN  IF Len(ms) > 0
        THEN <<addSpacing(10),
               Mark([kind |-> "tierHeading", tier |-> t]) \o addText(1, fontSize.h2),
               addSpacing(3)>>
             \o CardList([i \in 1..Len(ms) |-> addMaterialCard(a, ms[i], t)])
        ELSE <<>>

PdfCards(a) == PdfCardsTier(a, 1) \o PdfCardsTier(a, 2) \o PdfCardsTier(a, 3)

PdfConsultantsTierAllDivisions(a, t) ==
    LET ms == TierFilter(a.materials, t)
        consultants == getConsultantsForDivisions(DistinctDivisions(a.materials), t)
    IN  IF Len(ms) > 0
        THEN <<addSpacing(10),
               Mark([kind |-> "consultantTier", tier |-> t]) \o addText(1, fontSize.h2),
               addSpacing(3)>>
             \o CardList([i \in 1..Len(consultants) |->
                            addConsultantCard(consultants[i], t)])
             \o <<addSpacing(5)>>
        ELSE <<>>

\* one tier of the consultants appendix
PdfConsultantsTier(a, t) ==
    LET ms == TierFilter(a.materials, t)
        consultants == getConsultantsForDivisions(DistinctDivisions(ms), t)
    IN  IF Len(ms) > 0
        THEN <<addSpacing(10),
               Mark([kind |-> "consultantTier", tier |-> t]) \o addText(1, fontSize.h2),
               addSpacing(3)>>
             \o CardList([i \in 1..Len(consultants) |->
                            addConsultantCard(consultants[i], t)])
             \o <<addSpacing(5)>>
        ELSE <<>>

PdfConsultants(a) ==
    <<addSpacing(10),
      Mark([kind |-> "consultantsAppendix"]) \o addText(1, fontSize.h1),
      addSpacing(3),
      addText(a.textLines, fontSize.body),
      addSpacing(5)>>
    \o PdfConsultantsTier(a, 1) \o PdfConsultantsTier(a, 2) \o PdfConsultantsTier(a, 3)

PdfSuppliersTier(a, t) ==
    LET ms == TierFilter(a.materials, t)
        suppliers == getSuppliersForMaterials(ms, a.location[1], t)
    IN  IF Len(ms) > 0
        THEN <<addSpacing(10),
               Mark([kind |-> "supplierTier", tier |-> t]) \o addText(1, fontSize.h2),
               addSpacing(3)>>
             \o (IF Len(suppliers) > 0
                 THEN CardList([i \in 1..Len(suppliers) |->
                                  addSupplierCard(suppliers[i], t)])
                 ELSE <<Mark([kind |-> "noLocalSuppliers", tier |-> t])
                        \o addText(1, fontSize.body),
                        addSpacing(3)>>)
             \o <<addSpacing(5)>>
        ELSE <<>>

PdfSuppliersBody(a) ==
    <<addSpacing(10),
      Mark([kind |-> "suppliersAppendix"]) \o addText(1, fontSize.h1),
      addSpacing(3),
      addText(a.textLines, fontSize.body),
      addSpacing(5)>>
    \o PdfSuppliersTier(a, 1) \o PdfSuppliersTier(a, 2)
    \o (LET nationalSuppliers == NationalSuppliers(a)
        IN  IF Len(nationalSuppliers) > 0
            THEN <<addSpacing(10),
                   Mark([kind |-> "nationalSuppliers"]) \o addText(1, fontSize.h2),
                   addSpacing(3),
                   addText(a.textLines, fontSize.body),
                   addSpacing(5)>>
                 \o CardList([i \in 1..Len(nationalSuppliers) |->
                                addSupplierCard(nationalSuppliers[i], 0)])
                 \o <<addSpacing(5)>>
            ELSE <<>>)

PdfSuppliersTier1Only(a) ==
    IF Len(TierFilter(a.materials, 1)) > 0 /\ HasLocation(a)
    THEN PdfSuppliersBody(a)
    ELSE <<>>

PdfSuppliers(a) ==
    IF (Len(TierFilter(a.materials, 1)) > 0 \/ Len(TierFilter(a.materials, 2)) > 0)
       /\ HasLocation(a)
    THEN PdfSuppliersBody(a)
    ELSE <<>>

PdfStatementsSuppliersFirst(a, decoded) ==
    <<Mark([kind |-> "title"]) \o Draw(Mm(10)) \o Inc(Mm(10))>>
    \o PdfImage(a, decoded) \o PdfLocation(a) \o PdfDate \o PdfBrief(a)
    \o PdfSummary(a) \o PdfCards(a) \o PdfSuppliers(a) \o PdfConsultants(a)

\* the statements of buildPDFDocument up to the footer pass
PdfStatements(a, decoded) ==
    <<Mark([kind |-> "title"]) \o Draw(Mm(10)) \o Inc(Mm(10))>>
    \o PdfImage(a, decoded) \o PdfLocation(a) \o PdfDate \o PdfBrief(a)
    \o PdfSummary(a) \o PdfCards(a) \o PdfConsultants(a) \o PdfSuppliers(a)

\* the statements that run before the await on the image promise
PdfBeforeAwait(a) ==
    <<Mark([kind |-> "title"]) \o Draw(Mm(10)) \o Inc(Mm(10))>> \o PdfImageCount(a)

\* the statements that run once the promise has settled with `decoded`
PdfAfterAwait(a, decoded) ==
    PdfEmbed(a, decoded) \o PdfLocation(a) \o PdfDate \o PdfBrief(a)
    \o PdfSummary(a) \o PdfCards(a) \o PdfConsultants(a) \o PdfSuppliers(a)

-----------------------------------------------------------------------------
(* Execution of the paginated renderer *)

checkNewPageIgnoringHeight(st, requiredHeight) ==
    IF st.yPos > pageHeight - margin
    THEN [st EXCEPT !.numPages = @ + 1, !.yPos = margin]
    ELSE st

\* if (yPos + requiredHeight > pageHeight - margin) { doc.addPage(); yPos = margin }
checkNewPage(st, requiredHeight) ==
    IF st.yPos + requiredHeight > pageHeight - margin
    THEN [st EXCEPT !.numPages = @ + 1, !.yPos = margin]
    ELSE st

ExecOp(st, o) ==
    CASE o.op = "check" -> checkNewPage(st, o.h)
      [] o.op = "draw"  ->
            [st EXCEPT !.draws = Append(@, [page |-> st.numPages, y |-> st.yPos, h |-> o.h,
                                               role |-> o.role])]
      [] o.op = "inc"   -> [st EXCEPT !.yPos = @ + o.h]
      [] o.op = "mark"  -> [st EXCEPT !.out = Append(@, o.block)]

RECURSIVE ExecOps(_, _)
\* the operations of one statement, in order
ExecOps(st, ops) ==
    IF ops = <<>> THEN st ELSE ExecOps(ExecOp(st, Head(ops)), Tail(ops))

\* one statement; draws holds what this statement drew
ExecStatement(st, ops) == ExecOps([st EXCEPT !.draws = <<>>], ops)

RECURSIVE ExecRange(_, _, _, _)
ExecRange(st, stmts, lo, hi) ==
    IF lo > hi THEN st
    ELSE IF lo = hi THEN ExecStatement(st, stmts[lo])
    ELSE LET mid == (lo + hi) \div 2
             first == ExecRange(st, stmts, lo, mid)
         IN  IF first.numPages > 0 THEN ExecRange(first, stmts, mid + 1, hi) ELSE first

\* the statements executed in program order
ExecStatements(st, stmts) == ExecRange(st, stmts, 1, Len(stmts))

FooterPassBeforeLast(pages) == [i \in 1..(pages - 1) |-> <<i, pages>>]

\* const totalPages = doc.getNumberOfPages(); for (i = 1; i <= totalPages; i++) stamp
FooterPass(pages) == [i \in 1..pages |-> <<i, pages>>]

-----------------------------------------------------------------------------
(* Inputs *)

Names == <<"m1", "m2", "m3", "m4", "m5", "m6">>

Material(number, division, tier, alternatives) ==
    [name |-> "", csiNumber |-> number, csiDivision |-> division, tier |-> tier,
     properties |-> 1, sustainabilityNotes |-> TRUE, codeCompliance |-> TRUE,
     alternatives |-> alternatives]

\* materials named after their position in the input list
Named(ms) == [i \in 1..Len(ms) |-> [ms[i] EXCEPT !.name = Names[i]]]

Tiers == {1, 2, 3}

\* two divisions share the number 07 and one name is not in the taxonomy tables
Divisions ==
    {<<<<"0", "3">>, "Concrete">>,
     <<<<"0", "7">>, "Thermal and Moisture Protection">>,
     <<<<"0", "7">>, "Thermal Protection">>}

Austin == [input |-> "Austin", jurisdiction |-> <<"Austin", ",", " ", "TX">>,
           buildingCode |-> TRUE]

\* a place whose name does not fit on one line of a card
LongRegion == [input |-> "Long Region", jurisdiction |-> <<"Long Region", ",", " ", "TX">>,
               buildingCode |-> TRUE]

Photo == [ok |-> TRUE, embeds |-> TRUE, width |-> Mm(100), height |-> Mm(300)]

Thumbnail == [ok |-> TRUE, embeds |-> TRUE, width |-> Mm(40), height |-> Mm(30)]

\* data the browser cannot decode: img.onerror fires
Corrupt == [ok |-> FALSE, embeds |-> FALSE, width |-> 0, height |-> 0]

\* data the browser decodes but doc.addImage rejects
Unembeddable == [ok |-> TRUE, embeds |-> FALSE, width |-> Mm(40), height |-> Mm(30)]

Intent == [intent |-> <<"label", "bullet", "blank", "plain">>, textLen |-> 600]

Analysis(materials, location, brief, includeAlternatives, imageUrls, textLines) ==
    [materials |-> Named(materials), location |-> location, brief |-> brief,
     includeSustainability |-> TRUE, includeAlternatives |-> includeAlternatives,
     imageUrls |-> imageUrls, textLines |-> textLines]

\* every order of divisions and tiers, in a full report
OrderingAnalyses ==
    {Analysis(ms, <<Austin>>, <<Intent>>, TRUE, <<Photo>>, 1) :
        ms \in SeqsUpTo({Material(d[1], d[2], t, 1) : d \in Divisions, t \in Tiers},
                        MaxMaterials)}

\* every combination of the optional parts, over materials of any tiers
SectionAnalyses ==
    {Analysis(ms, loc, brief, alt, imgs, 1) :
        ms \in SeqsUpTo({Material(<<"0", "3">>, "Concrete", t, n) : t \in Tiers, n \in {0, 1}},
                        MaxMaterials),
        loc \in {<<>>, <<Austin>>},
        brief \in {<<>>, <<Intent>>},
        alt \in BOOLEAN,
        imgs \in {<<>>, <<Photo>>}}

\* the inputs named in the testable properties of the specification
GroupingExample ==
    <<Material(<<"0", "3">>, "Concrete", 1, 0),
      Material(<<"0", "7">>, "Thermal and Moisture Protection", 2, 0),
      Material(<<"0", "7">>, "Thermal and Moisture Protection", 1, 0),
      Material(<<"2", "1">>, "Fire Suppression", 1, 0)>>

TierExample ==
    <<Material(<<"0", "7">>, "Thermal and Moisture Protection", 2, 0),
      Material(<<"0", "7">>, "Thermal and Moisture Protection", 1, 0),
      Material(<<"0", "7">>, "Thermal and Moisture Protection", 3, 0),
      Material(<<"0", "7">>, "Thermal and Moisture Protection", 1, 0)>>

ScenarioExample ==
    <<Material(<<"0", "7">>, "Thermal and Moisture Protection", 1, 0),
      Material(<<"0", "8">>, "Openings", 3, 0)>>

\* two division names under one number, met before a smaller number
TieExample ==
    <<Material(<<"0", "7">>, "Thermal Protection", 1, 0),
      Material(<<"0", "3">>, "Concrete", 1, 0),
      Material(<<"0", "7">>, "Thermal and Moisture Protection", 1, 0)>>

\* a brief with or without an extracted intent, whose raw text is empty,
\* just short, or just too long
Briefs ==
    {[intent |-> intent, textLen |-> n] :
        intent \in {<<>>, <<"plain">>}, n \in {0, BriefTextLimit - 1, BriefTextLimit}}

BriefAnalyses ==
    {Analysis(<<Material(<<"0", "3">>, "Concrete", 1, 0)>>, <<>>, <<b>>, FALSE, <<>>, 1) :
        b \in Briefs}

\* one image of every size up to MaxPixels x MaxPixels and nothing else
ImageAnalyses ==
    {Analysis(<<>>, <<>>, <<>>, FALSE,
              <<[ok |-> TRUE, embeds |-> TRUE, width |-> w, height |-> h]>>, 1) :
        w \in 1..MaxPixels, h \in 1..MaxPixels}

ExampleAnalyses ==
    {Analysis(GroupingExample, <<Austin>>, <<>>, FALSE, <<Photo>>, 1),
     Analysis(TieExample, <<Austin>>, <<>>, FALSE, <<Photo>>, 1),
     Analysis(TierExample, <<Austin>>, <<>>, FALSE, <<Photo>>, 1),
     Analysis(ScenarioExample, <<>>, <<>>, FALSE, <<Photo>>, 1)}

-----------------------------------------------------------------------------
(* The state machine *)

\* no call of buildPDFDocument is in progress and no modal is open
NoCalls == <<>>

\* the generator is not being called on its own
NoGen == <<>>

\* the Download button has not been pressed.  logId is whether the modal was
\* given a usage log id, calls holds one record per handleDownload call,
\* alerts counts alert(...) boxes and saved counts doc.save calls.
NoDownload == [logId |-> FALSE, calls |-> <<>>, alerts |-> 0, saved |-> 0]

\* ReportModal before it is mounted.  Blob URLs are numbered in the order
\* of their creation; 0 stands for null.
\*   mounted   the component is on screen
\*   closed    it has been unmounted
\*   pdfUrl    the pdfUrl state of the latest render
\*   captured  the pdfUrl the cleanup closure of the registered effect reads
\*   pending   generatePreview calls awaiting generatePDFBlob
\*   created   number of URL.createObjectURL calls made for the modal
\*   revoked   the URLs passed to URL.revokeObjectURL
\*   changes   number of times the analysis prop has changed
NoModal ==
    [mounted |-> FALSE, closed |-> FALSE, pdfUrl |-> 0, captured |-> 0, pending |-> 0,
     created |-> 0, revoked |-> {}, changes |-> 0]

Idle ==
    /\ mdOut = <<>>
    /\ pdfState = "idle"
    /\ imgState = "unset"
    /\ pdfOps = <<>>
    /\ pdfPc = 0
    /\ yPos = margin
    /\ numPages = 1
    /\ pdfOut = <<>>
    /\ lastDraw = <<>>
    /\ footers = <<>>

Init ==
    /\ analysis \in OrderingAnalyses \cup SectionAnalyses \cup ExampleAnalyses
                    \cup BriefAnalyses
    /\ Idle
    /\ calls = NoCalls
    /\ modal = NoModal
    /\ gen = NoGen
    /\ download = NoDownload

\* const report = generateMarkdownReport(analysis)
GenerateMarkdownReport ==
    /\ mdOut = <<>>
    /\ mdOut' = <<generateMarkdownReport(analysis)>>
    /\ analysis' = [analysis EXCEPT !.materials = MaterialsAfterMarkdown(@)]
    /\ UNCHANGED <<pdfState, imgState, pdfOps, pdfPc, yPos, numPages, pdfOut,
                   lastDraw, footers, calls, modal, gen,
                   download>>

\* the state of the image promise once it has settled
Settled(a) ==
    IF a.imageUrls = <<>> THEN "unset"
    ELSE IF Decode(a) # <<>> THEN "loaded" ELSE "failed"

\* await buildPDFDocument(analysis), from its first statement to its return
BuildPDFDocument ==
    /\ pdfState = "idle"
    /\ LET st == ExecStatements(
                     [yPos |-> margin, numPages |-> 1, out |-> <<>>, draws |-> <<>>],
                     PdfStatements(analysis, Decode(analysis)))
       IN  /\ yPos' = st.yPos
           /\ numPages' = st.numPages
           /\ pdfOut' = st.out
           /\ footers' = FooterPass(st.numPages)
    /\ pdfState' = "done"
    /\ imgState' = Settled(analysis)
    /\ lastDraw' = <<>>
    /\ UNCHANGED <<analysis, mdOut, pdfOps, pdfPc, calls, modal, gen,
                   download>>

Next == GenerateMarkdownReport \/ BuildPDFDocument

Spec == Init /\ [][Next]_vars

\* buildPDFDocument on an analysis that is nothing but one image
InitImage ==
    /\ analysis \in ImageAnalyses
    /\ Idle
    /\ calls = NoCalls
    /\ modal = NoModal
    /\ gen = NoGen
    /\ download = NoDownload

NextImage == BuildPDFDocument

SpecImage == InitImage /\ [][NextImage]_vars

-----------------------------------------------------------------------------
(* buildPDFDocument statement by statement, suspended at its one await *)

Concrete(tier) == Material(<<"0", "3">>, "Concrete", tier, 1)

LayoutAnalyses ==
    {Analysis(ms, loc, <<Intent>>, TRUE, imgs, lines) :
        ms \in {<<>>, <<Concrete(1)>>, <<Concrete(2), Concrete(1)>>,
                <<Concrete(3), Concrete(2), Concrete(1)>>},
        loc \in {<<>>, <<Austin>>, <<LongRegion>>},
        imgs \in {<<>>, <<Photo>>, <<Thumbnail>>, <<Corrupt, Photo>>, <<Unembeddable>>},
        lines \in 1..MaxLines}

InitLayout ==
    /\ analysis \in LayoutAnalyses
    /\ Idle
    /\ calls = NoCalls
    /\ modal = NoModal
    /\ gen = NoGen
    /\ download = NoDownload

\* the call stands at its await: the statements before it have run and the
\* promise on the first image has not been created yet
AtAwait ==
    /\ analysis.imageUrls # <<>>
    /\ imgState = "unset"
    /\ pdfPc = Len(PdfBeforeAwait(analysis)) + 1

\* the call is entered: doc = new jsPDF(...), yPos = margin.  What img.onload
\* or img.onerror will report is a function of the image data, so the
\* statements the call is going to run are known from here on
PdfStart ==
    /\ pdfState = "idle"
    /\ pdfState' = "running"
    /\ pdfOps' = PdfStatements(analysis, Decode(analysis))
    /\ pdfPc' = 1
    /\ yPos' = margin
    /\ numPages' = 1
    /\ pdfOut' = <<>>
    /\ lastDraw' = <<>>
    /\ UNCHANGED <<analysis, mdOut, imgState, footers, calls, modal, gen,
                   download>>

\* the next statement of the call
PdfStep ==
    /\ pdfState = "running"
    /\ pdfPc <= Len(pdfOps)
    /\ ~AtAwait
    /\ LET st == ExecStatement([yPos |-> yPos, numPages |-> numPages, out |-> pdfOut,
                                draws |-> <<>>], pdfOps[pdfPc])
       IN  /\ yPos' = st.yPos
           /\ numPages' = st.numPages
           /\ pdfOut' = st.out
           /\ lastDraw' = st.draws
    /\ pdfPc' = pdfPc + 1
    /\ UNCHANGED <<analysis, mdOut, pdfState, imgState, pdfOps, footers, calls, modal, gen,
                   download>>

\* await new Promise(...): img.src is assigned and the call is suspended
PdfAwaitImage ==
    /\ pdfState = "running"
    /\ AtAwait
    /\ pdfState' = "decoding"
    /\ imgState' = "pending"
    /\ lastDraw' = <<>>
    /\ UNCHANGED <<analysis, mdOut, pdfOps, pdfPc, yPos, numPages, pdfOut, footers,
                   calls, modal, gen,
                   download>>

\* img.onload: the promise resolves and the call goes on inside the try block
PdfImageLoaded ==
    /\ pdfState = "decoding"
    /\ analysis.imageUrls[1].ok
    /\ pdfState' = "running"
    /\ imgState' = "loaded"
    /\ UNCHANGED <<analysis, mdOut, pdfOps, pdfPc, yPos, numPages, pdfOut, lastDraw,
                   footers, calls, modal, gen,
                   download>>

\* img.onerror: the promise rejects and the call goes on in the catch block
PdfImageFailed ==
    /\ pdfState = "decoding"
    /\ ~analysis.imageUrls[1].ok
    /\ pdfState' = "running"
    /\ imgState' = "failed"
    /\ UNCHANGED <<analysis, mdOut, pdfOps, pdfPc, yPos, numPages, pdfOut, lastDraw,
                   footers, calls, modal, gen,
                   download>>

\* the footer pass and the return of the document
PdfFooter ==
    /\ pdfState = "running"
    /\ pdfPc > Len(pdfOps)
    /\ ~AtAwait
    /\ footers' = FooterPass(numPages)
    /\ pdfState' = "done"
    /\ pdfOps' = <<>>
    /\ pdfPc' = 0
    /\ lastDraw' = <<>>
    /\ UNCHANGED <<analysis, mdOut, imgState, yPos, numPages, pdfOut, calls, modal, gen,
                   download>>

\* the steps of a call that has been entered
PdfContinue == PdfStep \/ PdfAwaitImage \/ PdfImageLoaded \/ PdfImageFailed \/ PdfFooter

NextLayout == PdfStart \/ PdfContinue

SpecLayout == InitLayout /\ [][NextLayout]_vars

\* the event loop runs every continuation that is ready
SpecLayoutFair == SpecLayout /\ WF_vars(PdfContinue)

-----------------------------------------------------------------------------
(* Concurrent calls of buildPDFDocument.  A call runs without interruption  *)
(* up to its await and from its await to its return; doc and yPos are       *)
(* locals of the call.                                                      *)

CallIds == {1, 2}

ConcurrentAnalyses ==
    {Analysis(ms, loc, <<Intent>>, TRUE, imgs, 1) :
        ms \in {<<Concrete(1)>>, <<Concrete(2), Concrete(1)>>},
        loc \in {<<>>, <<Austin>>},
        imgs \in {<<>>, <<Photo>>, <<Corrupt, Photo>>}}

\* a call that has not been entered
NewCall(a) ==
    [analysis |-> a, state |-> "idle", overlapped |-> FALSE, yPos |-> margin,
     numPages |-> 1, out |-> <<>>, footers |-> <<>>]

InitConcurrent ==
    /\ analysis \in ConcurrentAnalyses
    /\ Idle
    /\ modal = NoModal
    /\ gen = NoGen
    /\ download = NoDownload
    /\ calls \in [CallIds -> {NewCall(a) : a \in ConcurrentAnalyses}]
    /\ calls[1].analysis = analysis

CallLocalsSharedCursor(c) ==
    [yPos     |-> LET o == CHOOSE o \in CallIds : o # c
                  IN  IF calls[o].state # "idle" THEN calls[o].yPos ELSE calls[c].yPos,
     numPages |-> calls[c].numPages,
     out      |-> calls[c].out,
     draws    |-> <<>>]

\* doc and yPos as the continuation of call c finds them
CallLocals(c) ==
    [yPos     |-> calls[c].yPos,
     numPages |-> calls[c].numPages,
     out      |-> calls[c].out,
     draws    |-> <<>>]

\* the call record after running stmts; `last` tells whether the call returns
Ran(c, st, last) ==
    [calls[c] EXCEPT !.yPos = st.yPos,
                     !.numPages = st.numPages,
                     !.out = st.out,
                     !.footers = IF last THEN FooterPass(st.numPages) ELSE <<>>,
                     !.state = IF last THEN "done" ELSE "awaiting",
                     !.overlapped = @ \/ (\E o \in CallIds \ {c} : calls[o].state = "awaiting")]

\* buildPDFDocument(analysis) is called: it runs to its await, or to its
\* return when there is no image
CallStart(c) ==
    /\ calls[c].state = "idle"
    /\ LET a == calls[c].analysis
           fresh == [yPos |-> margin, numPages |-> 1, out |-> <<>>, draws |-> <<>>]
       IN  calls' = [calls EXCEPT ![c] =
                        IF a.imageUrls = <<>>
                        THEN Ran(c, ExecStatements(fresh, PdfStatements(a, <<>>)), TRUE)
                        ELSE Ran(c, ExecStatements(fresh, PdfBeforeAwait(a)), FALSE)]
    /\ UNCHANGED <<analysis, mdOut, pdfState, imgState, pdfOps, pdfPc, yPos, numPages,
                   pdfOut, lastDraw, footers, modal, gen,
                   download>>

\* the promise on the image settles and the call runs to its return
CallResume(c) ==
    /\ calls[c].state = "awaiting"
    /\ LET a == calls[c].analysis
       IN  calls' = [calls EXCEPT ![c] =
                        Ran(c, ExecStatements(CallLocals(c), PdfAfterAwait(a, Decode(a))),
                            TRUE)]
    /\ UNCHANGED <<analysis, mdOut, pdfState, imgState, pdfOps, pdfPc, yPos, numPages,
                   pdfOut, lastDraw, footers, modal, gen,
                   download>>

NextConcurrent == \E c \in CallIds : CallStart(c) \/ CallResume(c)

SpecConcurrent == InitConcurrent /\ [][NextConcurrent]_vars

-----------------------------------------------------------------------------
(* ReportModal: the preview effect and its cleanup *)

reportVars == <<analysis, mdOut, pdfState, imgState, pdfOps, pdfPc, yPos, numPages,
                pdfOut, lastDraw, footers, calls, gen, download>>

\* return () => { if (pdfUrl) URL.revokeObjectURL(pdfUrl) }: pdfUrl is the
\* constant of the render in which the effect ran
RevokeCaptured(m) == IF m.captured # 0 THEN m.revoked \cup {m.captured} ELSE m.revoked

InitModal ==
    /\ analysis = Analysis(<<Concrete(1)>>, <<Austin>>, <<Intent>>, TRUE, <<Photo>>, 1)
    /\ Idle
    /\ calls = NoCalls
    /\ modal = NoModal
    /\ gen = NoGen
    /\ download = NoDownload

\* first render: pdfUrl is null; the effect runs, calls generatePreview() and
\* registers its cleanup
ModalMount ==
    /\ ~modal.mounted /\ ~modal.closed
    /\ modal' = [modal EXCEPT !.mounted = TRUE, !.pdfUrl = 0, !.captured = 0,
                              !.pending = @ + 1]
    /\ UNCHANGED reportVars

\* const url = await generateBlob(analysis); setPdfUrl(url).  The new state
\* re-renders the component, but the effect depends on [analysis] only and
\* keeps its closure; a state update on an unmounted component is dropped
PreviewResolved ==
    /\ modal.pending > 0
    /\ modal' = [modal EXCEPT !.pending = @ - 1,
                              !.created = @ + 1,
                              !.pdfUrl = IF modal.mounted THEN modal.created + 1 ELSE @]
    /\ UNCHANGED reportVars

\* loadPDFFunctions() or generateBlob rejects: catch (error) { setError(...) }
PreviewRejected ==
    /\ modal.pending > 0
    /\ modal' = [modal EXCEPT !.pending = @ - 1]
    /\ UNCHANGED reportVars

\* the analysis prop changes: the cleanup of the previous effect runs, then
\* the effect runs again in the new render and captures its pdfUrl
AnalysisChanged ==
    /\ modal.mounted
    /\ modal.changes < MaxChanges
    /\ modal' = [modal EXCEPT !.revoked = RevokeCaptured(modal),
                              !.captured = modal.pdfUrl,
                              !.pending = @ + 1,
                              !.changes = @ + 1]
    /\ UNCHANGED reportVars

\* the modal is closed: the cleanup of the registered effect runs
ModalUnmount ==
    /\ modal.mounted
    /\ modal' = [modal EXCEPT !.revoked = RevokeCaptured(modal),
                              !.mounted = FALSE,
                              !.closed = TRUE]
    /\ UNCHANGED reportVars

NextModal ==
    ModalMount \/ PreviewResolved \/ PreviewRejected \/ AnalysisChanged \/ ModalUnmount

SpecModal == InitModal /\ [][NextModal]_vars

-----------------------------------------------------------------------------
(* The derived-entity generator called on its own *)

\* longest list of division names handed to the generator
MaxDivisions == 4

\* divisionToSpecialty and divisionToSupplierType are object literals: for
\* these names table[name] is a member inherited from Object.prototype, which
\* is truthy, so the || fallback is not taken, and has no forEach or slice
ObjectPrototypeKeys ==
    {"constructor", "toString", "toLocaleString", "valueOf", "hasOwnProperty",
     "isPrototypeOf", "propertyIsEnumerable", "__proto__"}

Threw == [threw |-> TRUE, value |-> <<>>]

Returned(list) == [threw |-> FALSE, value |-> list]

\* a call getConsultantsForDivisions(divisions, tier): divSpecialties.forEach
\* is not a function when the lookup yields an inherited member
CallGetConsultants(divisions, tier) ==
    IF \E i \in 1..Len(divisions) : divisions[i] \in ObjectPrototypeKeys
    THEN Threw
    ELSE Returned(getConsultantsForDivisions(divisions, tier))

\* a call getSuppliersForMaterials(materials, location, tier): reading
\* location.jurisdiction of an absent location is a TypeError, and so is
\* supplierTypes.slice when the lookup yields an inherited member
CallGetSuppliers(materials, location, tier) ==
    IF location = <<>> THEN Threw
    ELSE IF \E i \in 1..Len(materials) : materials[i].csiDivision \in ObjectPrototypeKeys
    THEN Threw
    ELSE Returned(getSuppliersForMaterials(materials, location[1], tier))

\* two names that share a specialty, one known to the specialty table only,
\* one known to neither table, and one inherited from Object.prototype
GenDivisions == {"Concrete", "Masonry", "Fire Suppression", "Unlisted Division", "constructor"}

NoJurisdiction == [input |-> "Site 12", jurisdiction |-> <<>>, buildingCode |-> FALSE]

\* jurisdiction ", TX"
EmptyFirstToken == [input |-> ", TX", jurisdiction |-> <<",", " ", "TX">>, buildingCode |-> FALSE]

\* jurisdiction " , TX"
BlankFirstToken ==
    [input |-> " , TX", jurisdiction |-> <<" ", ",", " ", "TX">>, buildingCode |-> FALSE]

GenLocations == {<<>>, <<NoJurisdiction>>, <<EmptyFirstToken>>, <<BlankFirstToken>>, <<Austin>>}

GenMaterials(divisions, tier) ==
    Named([i \in 1..Len(divisions) |-> Material(<<"0", "0">>, divisions[i], tier, 0)])

GenCall(call, divisions, location, tier) ==
    [call |-> call, divisions |-> divisions, location |-> location, tier |-> tier,
     result |-> <<>>]

InitGenerator ==
    /\ analysis = Analysis(<<>>, <<>>, <<>>, FALSE, <<>>, 1)
    /\ Idle
    /\ calls = NoCalls
    /\ modal = NoModal
    /\ download = NoDownload
    /\ gen \in {GenCall("consultants", ds, <<>>, t) :
                    ds \in SeqsUpTo(GenDivisions, MaxDivisions), t \in Tiers}
              \cup {GenCall("suppliers", ds, loc, t) :
                    ds \in SeqsUpTo(GenDivisions, MaxDivisions), loc \in GenLocations,
                    t \in {1, 2}}

GetConsultantsForDivisions ==
    /\ gen.call = "consultants"
    /\ gen.result = <<>>
    /\ gen' = [gen EXCEPT !.result = <<CallGetConsultants(gen.divisions, gen.tier)>>]
    /\ UNCHANGED <<analysis, mdOut, pdfState, imgState, pdfOps, pdfPc, yPos, numPages,
                   pdfOut, lastDraw, footers, calls, modal, download>>

GetSuppliersForMaterials ==
    /\ gen.call = "suppliers"
    /\ gen.result = <<>>
    /\ gen' = [gen EXCEPT !.result =
                    <<CallGetSuppliers(GenMaterials(gen.divisions, gen.tier), gen.location,
                                       gen.tier)>>]
    /\ UNCHANGED <<analysis, mdOut, pdfState, imgState, pdfOps, pdfPc, yPos, numPages,
                   pdfOut, lastDraw, footers, calls, modal, download>>

NextGenerator == GetConsultantsForDivisions \/ GetSuppliersForMaterials

SpecGenerator == InitGenerator /\ [][NextGenerator]_vars

-----------------------------------------------------------------------------
(* ReportModal: handleDownload and the report log.  A call is a record      *)
(*   pc   "loading"     awaiting loadPDFFunctions()                         *)
(*        "generating"  awaiting generateReport(analysis)                   *)
(*        "done"        the try block has run to its end                    *)
(*        "failed"      the catch block has shown its alert                 *)
(*   log  "none"        logReportGeneration has not been called             *)
(*        "sent"        its fetch is in flight                              *)
(*        "ok"          the fetch resolved                                  *)
(*        "failed"      the fetch rejected and was caught with a warning    *)

downloadVars == <<analysis, mdOut, pdfState, imgState, pdfOps, pdfPc, yPos, numPages,
                  pdfOut, lastDraw, footers, calls, modal, gen>>

InitDownload ==
    /\ analysis = Analysis(<<Concrete(1)>>, <<Austin>>, <<Intent>>, TRUE, <<Photo>>, 1)
    /\ Idle
    /\ calls = NoCalls
    /\ modal = NoModal
    /\ gen = NoGen
    /\ download \in {[NoDownload EXCEPT !.logId = id] : id \in BOOLEAN}

\* onClick={handleDownload}: the call runs up to its first await
HandleDownload ==
    /\ Len(download.calls) < MaxDownloads
    /\ download' = [download EXCEPT
                        !.calls = Append(@, [pc |-> "loading", log |-> "none"])]
    /\ UNCHANGED downloadVars

AfterReportLogAlways(call, logId, ok) ==
    [pc |-> IF ok THEN "done" ELSE "failed", log |-> IF logId THEN "sent" ELSE "none"]

\* the call once generateReport(analysis) has settled: if (logId)
\* logReportGeneration(logId, 'pdf') is reached when it resolved, the catch
\* block when it rejected
AfterReport(call, logId, ok) ==
    IF ok
    THEN [pc |-> "done", log |-> IF logId THEN "sent" ELSE "none"]
    ELSE [pc |-> "failed", log |-> "none"]

\* await loadPDFFunctions() resolves
LoadResolved(c) ==
    /\ download.calls[c].pc = "loading"
    /\ download' = [download EXCEPT !.calls[c].pc = "generating"]
    /\ UNCHANGED downloadVars

\* await loadPDFFunctions() rejects: catch, alert
LoadRejected(c) ==
    /\ download.calls[c].pc = "loading"
    /\ download' = [download EXCEPT !.calls[c].pc = "failed", !.alerts = @ + 1]
    /\ UNCHANGED downloadVars

\* await generateReport(analysis) resolves: the document has been saved
ReportResolved(c) ==
    /\ download.calls[c].pc = "generating"
    /\ download' = [download EXCEPT
                        !.calls[c] = AfterReport(@, download.logId, TRUE),
                        !.saved = @ + 1]
    /\ UNCHANGED downloadVars

\* await generateReport(analysis) rejects: catch, alert
ReportRejected(c) ==
    /\ download.calls[c].pc = "generating"
    /\ download' = [download EXCEPT
                        !.calls[c] = AfterReport(@, download.logId, FALSE),
                        !.alerts = @ + 1]
    /\ UNCHANGED downloadVars

\* the fetch of logReportGeneration settles; a rejection is caught inside
\* logReportGeneration, and the .catch of the caller swallows anything else
LogSettled(c) ==
    /\ download.calls[c].log = "sent"
    /\ \E outcome \in {"ok", "failed"} :
          download' = [download EXCEPT !.calls[c].log = outcome]
    /\ UNCHANGED downloadVars

NextDownload ==
    \/ HandleDownload
    \/ \E c \in 1..Len(download.calls) :
          \/ LoadResolved(c)
          \/ LoadRejected(c)
          \/ ReportResolved(c)
          \/ ReportRejected(c)
          \/ LogSettled(c)

SpecDownload == InitDownload /\ [][NextDownload]_vars

-----------------------------------------------------------------------------
(* Reading a rendered report *)

Rendered == mdOut # <<>> /\ pdfState = "done"

Kinds(out) == {out[i].kind : i \in 1..Len(out)}

Blocks(out, kind) == SelectSeq(out, LAMBDA b : b.kind = kind)

Positions(out, kind) == {i \in 1..Len(out) : out[i].kind = kind}

Max(S) == CHOOSE x \in S : \A y \in S : y <= x

\* the heading of the given kind that the block at position i stands under
Enclosing(out, kind, i) == out[Max({j \in Positions(out, kind) : j < i})]

\* (division key, tier, material name) of the material blocks, in order of emission
Triples(out) ==
    LET at == SelectSeq([i \in 1..Len(out) |-> i], LAMBDA i : out[i].kind = "material")
    IN  [n \in 1..Len(at) |->
            <<out[at[n]].csi, Enclosing(out, "tierHeading", at[n]).tier, out[at[n]].name>>]

InputIndex(name) == CHOOSE i \in 1..Len(analysis.materials) : analysis.materials[i].name = name

-----------------------------------------------------------------------------
(* Claims *)

TriplesOfDivision(out, key) == SelectSeq(Triples(out), LAMBDA t : t[1] = key)

\* C1 as stated: the (division key, tier, material name) triples of the
\* markdown sections and of the paginated cards form the same sequence.
C1_SameTripleSequence == Rendered => Triples(mdOut[1]) = Triples(pdfOut)

\* C1 amended: both outputs emit the same triples, and for every division key
\* the triples of that division come in the same order in both; the order
\* across divisions may differ (markdown goes division by division, the
\* paginated output tier by tier over the whole list).
C1_SameTriplesPerDivision ==
    Rendered =>
        /\ Len(Triples(mdOut[1])) = Len(Triples(pdfOut))
        /\ Range(Triples(mdOut[1])) = Range(Triples(pdfOut))
        /\ \A m \in Range(analysis.materials) :
              TriplesOfDivision(mdOut[1], DivisionKey(m))
                  = TriplesOfDivision(pdfOut, DivisionKey(m))

C1_Witness ==
    /\ Rendered
    /\ Triples(mdOut[1]) # Triples(pdfOut)
    /\ \E i, j \in 1..Len(analysis.materials) :
          /\ i < j
          /\ DivisionKey(analysis.materials[i]) = DivisionKey(analysis.materials[j])
          /\ analysis.materials[i].tier > analysis.materials[j].tier

\* the kinds among S in order of first appearance
SectionOrder(out, S) ==
    Dedupe(Map(SelectSeq(out, LAMBDA b : b.kind \in S), LAMBDA b : b.kind))

ListedSections ==
    {"brief", "location", "summary", "material", "codeCompliance", "recommendations",
     "consultantsAppendix", "suppliersAppendix"}

\* C2 as stated: brief, location, summary, per-material content, code
\* compliance block, recommendations, consultants appendix and suppliers
\* appendix come in the same sequence in the paginated and the markdown output.
C2_SameSectionSequence ==
    Rendered => SectionOrder(pdfOut, ListedSections) = SectionOrder(mdOut[1], ListedSections)

\* C2 amended: summary, per-material content, consultants appendix and
\* suppliers appendix come in the same relative order in both outputs; the
\* paginated output further differs from the markdown one in that its image
\* follows the title, its location block precedes its brief section (markdown:
\* brief before location), and it has no code-compliance block and no
\* recommendations.
C2_SharedSectionSequence ==
    Rendered =>
        /\ LET shared == {"summary", "material", "consultantsAppendix", "suppliersAppendix"}
           IN  SectionOrder(pdfOut, shared) = SectionOrder(mdOut[1], shared)
        /\ Kinds(pdfOut) \cap {"codeCompliance", "recommendations"} = {}
        /\ "recommendations" \in Kinds(mdOut[1])
        /\ HasLocation(analysis) /\ HasBrief(analysis) =>
              /\ SectionOrder(mdOut[1], {"brief", "location"}) = <<"brief", "location">>
              /\ SectionOrder(pdfOut, {"brief", "location"}) = <<"location", "brief">>
        /\ analysis.imageUrls # <<>> =>
              /\ pdfOut[1].kind = "title"
              /\ pdfOut[IF Len(analysis.imageUrls) > 1 THEN 3 ELSE 2].kind
                    \in {"image", "imagePlaceholder"}

C2_Witness ==
    /\ Rendered
    /\ HasLocation(analysis)
    /\ HasBrief(analysis)
    /\ {"image", "material", "suppliersAppendix"} \subseteq Kinds(pdfOut)
    /\ "codeCompliance" \in Kinds(mdOut[1])

ConditionalSections ==
    {"brief", "location", "codeCompliance", "recLocation", "suppliersAppendix",
     "nationalSuppliers"}

\* C3 as stated: each conditionally included section is present in the
\* paginated output exactly when it is present in the markdown output.
C3_SameConditionalSections ==
    Rendered =>
        \A k \in ConditionalSections : k \in Kinds(pdfOut) <=> k \in Kinds(mdOut[1])

\* C3 amended: the location block, the suppliers appendix and the national
\* suppliers sub-block are present in the paginated output exactly when they
\* are present in the markdown output; the paginated output always has its
\* brief section (markdown: only with a brief) and never has a code-compliance
\* summary or location-dependent recommendation lines (markdown: with a location).
C3_ConditionalSections ==
    Rendered =>
        /\ \A k \in {"location", "suppliersAppendix", "nationalSuppliers"} :
              k \in Kinds(pdfOut) <=> k \in Kinds(mdOut[1])
        /\ "brief" \in Kinds(pdfOut)
        /\ "brief" \in Kinds(mdOut[1]) <=> HasBrief(analysis)
        /\ Kinds(pdfOut) \cap {"codeCompliance", "recLocation"} = {}
        /\ \A k \in {"codeCompliance", "recLocation"} :
              k \in Kinds(mdOut[1]) <=> HasLocation(analysis)

C3_Witness ==
    /\ Rendered
    /\ ~HasBrief(analysis)
    /\ "nationalSuppliers" \in Kinds(pdfOut)
    /\ "codeCompliance" \in Kinds(mdOut[1])

NumberOfKey(key) ==
    ParseInt((CHOOSE m \in Range(analysis.materials) : DivisionKey(m) = key).csiNumber)

FirstSeen(key) ==
    CHOOSE i \in 1..Len(analysis.materials) :
        /\ DivisionKey(analysis.materials[i]) = key
        /\ \A j \in 1..(i - 1) : DivisionKey(analysis.materials[j]) # key

DivisionHeadings(out) == Map(Blocks(out, "division"), LAMBDA b : b.key)

\* C5: the division sections of the markdown report are in ascending order
\* of division number, and divisions with the same number are in the order in
\* which they first occur in the input.
C5_DivisionsAscending ==
    mdOut # <<>> =>
        LET keys == DivisionHeadings(mdOut[1])
        IN  \A i, j \in 1..Len(keys) :
                i < j =>
                    /\ NumberOfKey(keys[i]) <= NumberOfKey(keys[j])
                    /\ NumberOfKey(keys[i]) = NumberOfKey(keys[j])
                          => FirstSeen(keys[i]) < FirstSeen(keys[j])

\* two divisions tie on the number, and a smaller number comes later in the input
C5_Witness ==
    /\ mdOut # <<>>
    /\ LET keys == DivisionHeadings(mdOut[1])
       IN  /\ \E i, j \in 1..Len(keys) : i < j /\ NumberOfKey(keys[i]) = NumberOfKey(keys[j])
           /\ \E i, j \in 1..Len(keys) : i < j /\ FirstSeen(keys[i]) > FirstSeen(keys[j])

MaterialPositions(out) == Positions(out, "material")

\* C6: within a division section of the markdown report the materials stand
\* under tier headings 1, 2, 3 in this order, each under the heading of its
\* own tier, and materials of one tier keep their input order.
C6_TiersAscending ==
    mdOut # <<>> =>
        LET out == mdOut[1]
            tierAt(p) == Enclosing(out, "tierHeading", p).tier
        IN  \A p, q \in MaterialPositions(out) :
                /\ tierAt(p) = analysis.materials[InputIndex(out[p].name)].tier
                /\ (p < q /\ Enclosing(out, "division", p) = Enclosing(out, "division", q)) =>
                      /\ tierAt(p) <= tierAt(q)
                      /\ tierAt(p) = tierAt(q)
                            => InputIndex(out[p].name) < InputIndex(out[q].name)

\* input tiers [2,1,3,1] of one division are rendered as [1,1,2,3]
C6_Witness ==
    /\ mdOut # <<>>
    /\ Map(analysis.materials, LAMBDA m : m.tier) = <<2, 1, 3, 1>>
    /\ Triples(mdOut[1]) =
          [i \in 1..4 |-> <<DivisionKey(analysis.materials[1]),
                            <<1, 1, 2, 3>>[i], <<"m2", "m4", "m1", "m3">>[i]>>]

\* C7: a bucket holds exactly the materials whose key equals its key, in
\* input order; the markdown report has one division heading per distinct
\* key, and every material stands under the heading of its own key.
C7_GroupedByKey ==
    /\ \A k \in Range(GroupKeys(analysis.materials)) :
          LET bucket == GroupBucket(analysis.materials, k)
          IN  /\ Range(bucket) = {m \in Range(analysis.materials) : DivisionKey(m) = k}
              /\ \A i, j \in 1..Len(bucket) :
                    i < j => InputIndex(bucket[i].name) < InputIndex(bucket[j].name)
    /\ mdOut # <<>> =>
          LET out == mdOut[1]
              keys == DivisionHeadings(out)
          IN  /\ \A i, j \in 1..Len(keys) : i # j => keys[i] # keys[j]
              /\ Range(keys) = {DivisionKey(m) : m \in Range(analysis.materials)}
              /\ \A p \in MaterialPositions(out) :
                    Enclosing(out, "division", p).key = out[p].csi
              /\ Len(Blocks(out, "material")) = Len(analysis.materials)

\* numbers 03, 07, 07, 21 give the three headings 03, 07, 21
C7_Witness ==
    /\ mdOut # <<>>
    /\ Map(analysis.materials, LAMBDA m : m.csiNumber)
          = <<<<"0", "3">>, <<"0", "7">>, <<"0", "7">>, <<"2", "1">>>>
    /\ Map(DivisionHeadings(mdOut[1]), SplitFirst) = <<<<"0", "3">>, <<"0", "7">>, <<"2", "1">>>>

HasTier(t) == \E m \in Range(analysis.materials) : m.tier = t

\* C9: in both outputs the suppliers appendix is there exactly when the
\* Analysis has a location and a tier-1 or tier-2 material; with tier-3
\* materials only there is no supplier entry; without a location there is
\* neither a suppliers appendix nor a code-compliance summary.
C9_SupplierGating ==
    Rendered =>
        \A out \in {mdOut[1], pdfOut} :
            /\ "suppliersAppendix" \in Kinds(out)
                  <=> (HasLocation(analysis) /\ (HasTier(1) \/ HasTier(2)))
            /\ (~HasTier(1) /\ ~HasTier(2)) => "supplier" \notin Kinds(out)
            /\ ~HasLocation(analysis) =>
                  Kinds(out) \cap {"suppliersAppendix", "supplier", "codeCompliance"} = {}

\* tier-3 materials only, with a location
C9_Witness ==
    /\ Rendered
    /\ HasLocation(analysis)
    /\ HasTier(3) /\ ~HasTier(1) /\ ~HasTier(2)
    /\ "suppliersAppendix" \notin Kinds(mdOut[1]) \cup Kinds(pdfOut)

\* C10: in both outputs a material shows an alternatives block exactly when
\* includeAlternatives is set and the material has at least one alternative.
C10_AlternativesGated ==
    Rendered =>
        \A out \in {mdOut[1], pdfOut} :
            \A p \in MaterialPositions(out) :
                out[p].alternatives > 0
                    <=> /\ analysis.includeAlternatives
                        /\ analysis.materials[InputIndex(out[p].name)].alternatives > 0

\* includeAlternatives off, over a material that has alternatives
C10_Witness ==
    /\ Rendered
    /\ ~analysis.includeAlternatives
    /\ \E m \in Range(analysis.materials) : m.alternatives > 0
    /\ \A p \in MaterialPositions(pdfOut) : pdfOut[p].alternatives = 0

-----------------------------------------------------------------------------
(* Appendices of the two renderers *)

\* the entries of the given kind listed under the given tier, in order
Entries(out, kind, t) ==
    Map(SelectSeq(out, LAMBDA b : b.kind = kind /\ b.tier = t), LAMBDA b : b.entry)

\* C11: for every tier the consultants rendered in the paginated output are
\* those of the markdown output, entry for entry and in the same order, and
\* so are the tier-1 and the tier-2 suppliers.
C11_SameAppendixLists ==
    Rendered =>
        /\ \A t \in Tiers :
              Entries(pdfOut, "consultant", t) = Entries(mdOut[1], "consultant", t)
        /\ \A t \in {1, 2} :
              Entries(pdfOut, "supplier", t) = Entries(mdOut[1], "supplier", t)

\* both renderers listed consultants for two tiers, whose division sets
\* differ, and suppliers for tier 1 and tier 2
C11_Witness ==
    /\ Rendered
    /\ Len(Entries(pdfOut, "consultant", 1)) > 0
    /\ Len(Entries(pdfOut, "consultant", 2)) > 0
    /\ DistinctDivisions(TierFilter(analysis.materials, 1))
          # DistinctDivisions(TierFilter(analysis.materials, 2))
    /\ Len(Entries(pdfOut, "supplier", 1)) > 0
    /\ Len(Entries(pdfOut, "supplier", 2)) > Len(Entries(pdfOut, "supplier", 1))

-----------------------------------------------------------------------------
(* Footer pass *)

\* the content blocks a sequence of statements emits, in order
MarkedBlocks(stmts) ==
    Map(SelectSeq(Flatten(stmts), LAMBDA o : o.op = "mark"), LAMBDA o : o.block)

\* the footer stamps written on page p
StampsOn(p) == {k \in 1..Len(footers) : footers[k][1] = p}

\* C12: no footer is stamped before all content has been emitted; once the
\* footer pass has run, every page 1..N carries exactly one stamp, and every
\* stamp reads "Page i of N" with N the final number of pages.
C12_FooterAfterContent ==
    /\ pdfState # "done" => footers = <<>>
    /\ pdfState = "done" =>
          /\ pdfOut = MarkedBlocks(PdfStatements(analysis, Decode(analysis)))
          /\ \A p \in 1..numPages : Cardinality(StampsOn(p)) = 1
          /\ \A k \in 1..Len(footers) :
                footers[k][1] \in 1..numPages /\ footers[k][2] = numPages

\* the footer pass ran over a document of several pages
C12_Witness ==
    /\ pdfState = "done"
    /\ numPages >= 3
    /\ Len(footers) = numPages
    /\ Len(pdfOut) > 3

-----------------------------------------------------------------------------
(* Image embedding *)

\* the first image cannot be shown: it does not decode, or doc.addImage throws
ImageFails(a) ==
    a.imageUrls # <<>> /\ (Decode(a) = <<>> \/ ~Decode(a)[1].embeds)

\* a report without the blocks that stand for the image
WithoutImage(out) == SelectSeq(out, LAMBDA b : b.kind \notin {"image", "imagePlaceholder"})

\* the same Analysis with a first image that decodes and embeds
WithGoodImage(a) == [a EXCEPT !.imageUrls = <<Photo>> \o Tail(a.imageUrls)]

\* nothing beyond the title and the image count is emitted while the promise
\* on the first image has not settled
C13_NothingPastPendingImage ==
    (analysis.imageUrls # <<>> /\ imgState \in {"unset", "pending"})
        => Kinds(pdfOut) \subseteq {"title", "imageCount"}

\* a render whose image failed returns the document of the same Analysis with
\* a good image, the placeholder line standing where the image would, and
\* every page stamped
C13_PlaceholderInPlace ==
    (pdfState = "done" /\ ImageFails(analysis)) =>
        LET before == Len(MarkedBlocks(PdfBeforeAwait(analysis)))
            good == WithGoodImage(analysis)
            whole == MarkedBlocks(PdfStatements(good, Decode(good)))
        IN  /\ Len(pdfOut) = Len(whole)
            /\ pdfOut[before + 1] = [kind |-> "imagePlaceholder"]
            /\ whole[before + 1].kind = "image"
            /\ WithoutImage(pdfOut) = WithoutImage(whole)
            /\ Len(footers) = numPages

\* C13: buildPDFDocument emits nothing after the image step until decoding
\* has succeeded or failed; when decoding or embedding fails the placeholder
\* line is emitted in place of the image, and the render still runs to
\* completion with all later sections and the footer pass.
C13_ImageNonFatal ==
    /\ [](C13_NothingPastPendingImage /\ C13_PlaceholderInPlace)
    /\ ((ImageFails(analysis) /\ pdfState = "decoding") ~> (pdfState = "done"))

\* a render completed after img.onerror fired, with the sections that follow
\* the image spread over several pages
C13_Witness ==
    /\ pdfState = "done"
    /\ imgState = "failed"
    /\ "imagePlaceholder" \in Kinds(pdfOut)
    /\ "suppliersAppendix" \in Kinds(pdfOut)
    /\ numPages >= 2
    /\ Len(footers) = numPages

-----------------------------------------------------------------------------
(* Release of the preview handle *)

\* C14 as stated: once the modal is gone and no preview is being generated
\* any more, every blob URL created for it has been revoked.
C14_AllUrlsRevoked ==
    (modal.closed /\ modal.pending = 0) => (1..modal.created) \subseteq modal.revoked

-----------------------------------------------------------------------------
(* Independence of concurrent calls *)

\* what buildPDFDocument returns for a when no other call is in progress
Alone(a) ==
    LET st == ExecStatements([yPos |-> margin, numPages |-> 1, out |-> <<>>,
                              draws |-> <<>>], PdfStatements(a, Decode(a)))
    IN  [yPos |-> st.yPos, numPages |-> st.numPages, out |-> st.out,
         footers |-> FooterPass(st.numPages)]

\* C15: whatever the interleaving of two calls at their awaits, a call that
\* has returned has produced the pages, the cursor position and the content
\* (consultant and supplier lists included) it produces when run alone.
C15_CallsIndependent ==
    \A c \in DOMAIN calls :
        calls[c].state = "done" =>
            [yPos |-> calls[c].yPos, numPages |-> calls[c].numPages,
             out |-> calls[c].out, footers |-> calls[c].footers]
                = Alone(calls[c].analysis)

\* two calls on different Analyses have returned, each resumed or started
\* while the other was suspended at its await
C15_Witness ==
    /\ \A c \in DOMAIN calls : calls[c].state = "done" /\ calls[c].overlapped
    /\ DOMAIN calls = CallIds
    /\ calls[1].analysis # calls[2].analysis
    /\ calls[1].yPos # calls[2].yPos
    /\ "supplier" \in Kinds(calls[1].out)

-----------------------------------------------------------------------------
(* Claims on the derived-entity generator *)

\* the generator has been called and has returned or thrown
Called(call) == gen # <<>> /\ gen.call = call /\ gen.result # <<>>

ReturnedFrom(call) == Called(call) /\ ~gen.result[1].threw

\* no region can be read off the location: it is absent, has no jurisdiction,
\* or nothing but blanks stands before the first comma
NoRegion(location) ==
    \/ location = <<>>
    \/ LET first == SplitComma(location[1].jurisdiction)
       IN  \A i \in 1..Len(first) : first[i] = " "

LocalEntries(list) == SelectSeq(list, LAMBDA e : e.rating = "local")

NationalEntries(list) == SelectSeq(list, LAMBDA e : e.rating = "national")

\* C16 as stated: neither generator function ever throws, whatever the
\* division names and the location (absent, without jurisdiction, with an
\* empty first token), and the local suppliers carry the region "Local Area"
\* whenever no region can be parsed.
C16_GeneratorNeverThrows ==
    /\ Called("consultants") => ~gen.result[1].threw
    /\ Called("suppliers") =>
          /\ ~gen.result[1].threw
          /\ NoRegion(gen.location) =>
                \A i \in 1..Len(LocalEntries(gen.result[1].value)) :
                    LocalEntries(gen.result[1].value)[i].location = <<"Local Area">>

\* number of distinct division names among the arguments of the call
DistinctCount == Cardinality(Range(gen.divisions))

\* C17: getSuppliersForMaterials produces national suppliers exactly when the
\* tier is 2 or more than three distinct divisions are present; then there are
\* min(3, distinct divisions) of them, each located at "National Distribution"
\* and rated national, and all of them come after every local entry.
C17_NationalSuppliers ==
    ReturnedFrom("suppliers") =>
        LET list == gen.result[1].value
            national == NationalEntries(list)
            produced == gen.tier = 2 \/ DistinctCount > 3
        IN  /\ Len(national) = (IF produced THEN Min(3, DistinctCount) ELSE 0)
            /\ DistinctCount > 0 => (national # <<>> <=> produced)
            /\ \A i \in 1..Len(list) :
                  /\ list[i].rating \in {"local", "national"}
                  /\ (list[i].rating = "national")
                        <=> (list[i].location = <<"National Distribution">>)
            /\ \A i, j \in 1..Len(list) :
                  (list[i].rating = "local" /\ list[j].rating = "national") => i < j

\* tier 1 with four distinct divisions: three national entries after the locals
C17_Witness ==
    /\ ReturnedFrom("suppliers")
    /\ gen.tier = 1
    /\ DistinctCount = 4
    /\ Len(NationalEntries(gen.result[1].value)) = 3
    /\ Len(LocalEntries(gen.result[1].value)) > 3

\* the first min(2, k) supplier-category labels of a division, k the number
\* of labels of the division in the supplier taxonomy table, or the one
\* generic label when the table does not list the division
FirstTwoLabels(division) ==
    IF division \in DOMAIN divisionToSupplierType
    THEN SubSeq(divisionToSupplierType[division], 1,
                Min(2, Len(divisionToSupplierType[division])))
    ELSE <<"General Building Materials">>

TaxonomyLabels(division) ==
    IF division \in DOMAIN divisionToSpecialty
    THEN Range(divisionToSpecialty[division])
    ELSE {"General Consulting"}

\* the distinct specialties resolved from the divisions of the call
ResolvedSpecialties == UNION {TaxonomyLabels(d) : d \in Range(gen.divisions)}

\* C19: getConsultantsForDivisions(divisions, tier) returns min(cap, s)
\* consultants, s the number of distinct specialties of the divisions and cap
\* 3, 4, 5 for tiers 1, 2, 3; entry i is built from the i-th specialty in
\* insertion order, as an "Associates" firm (tier 1), a "Custom Solutions"
\* firm with the discipline "Custom Fabrication" (tier 2) or an "Innovation
\* Lab" with the disciplines "Materials R&D" and "Innovation Consulting"
\* (tier 3).
C19_ConsultantsPerTier ==
    ReturnedFrom("consultants") =>
        LET list == gen.result[1].value
            cap == CASE gen.tier = 1 -> 3 [] gen.tier = 2 -> 4 [] gen.tier = 3 -> 5
            ordered == specialtyArray(gen.divisions)
        IN  /\ Len(list) = Min(cap, Cardinality(ResolvedSpecialties))
            /\ \A i \in 1..Len(list) :
                  /\ list[i].firm =
                        <<ordered[i], CASE gen.tier = 1 -> "Associates"
                                        [] gen.tier = 2 -> "Custom Solutions"
                                        [] gen.tier = 3 -> "Innovation Lab">>
                  /\ list[i].disciplines =
                        <<ordered[i]>>
                        \o CASE gen.tier = 1 -> <<>>
                             [] gen.tier = 2 -> <<"Custom Fabrication">>
                             [] gen.tier = 3 -> <<"Materials R&D", "Innovation Consulting">>

\* five specialties at tier 2: the first four of them become consultants
C19_Witness ==
    /\ ReturnedFrom("consultants")
    /\ gen.tier = 2
    /\ Cardinality(ResolvedSpecialties) = 5
    /\ Len(gen.result[1].value) = 4
    /\ gen.result[1].value[4].firm = <<"Masonry Engineering", "Custom Solutions">>

\* the labels met while walking the divisions of the call in input order
LabelWalk == Flatten(Map(gen.divisions, SpecialtiesOf))

FirstOccurrence(label) ==
    CHOOSE i \in 1..Len(LabelWalk) :
        LabelWalk[i] = label /\ \A j \in 1..(i - 1) : LabelWalk[j] # label

\* the resolved specialties are the union of the labels of the divisions,
\* none repeated, in the order of their first occurrence in the walk
ResolvedInOrder ==
    LET ordered == specialtyArray(gen.divisions)
    IN  /\ Range(ordered) = ResolvedSpecialties
        /\ Len(ordered) = Cardinality(ResolvedSpecialties)
        /\ \A i, j \in 1..Len(ordered) :
              i < j => FirstOccurrence(ordered[i]) < FirstOccurrence(ordered[j])
        /\ \A d \in Range(gen.divisions) :
              d \notin DOMAIN divisionToSpecialty =>
                  "General Consulting" \in Range(ordered)

\* C20 as stated: specialty resolution yields the union of the labels of the
\* input divisions, none repeated, ordered by first occurrence, and a division
\* the taxonomy table does not list contributes "General Consulting" and never
\* makes the call fail; the consultants returned are built from that list.
C20_SpecialtyResolution ==
    Called("consultants") =>
        /\ ~gen.result[1].threw
        /\ ResolvedInOrder
        /\ LET list == gen.result[1].value
           IN  \A i \in 1..Len(list) :
                  list[i].disciplines[1] = specialtyArray(gen.divisions)[i]

-----------------------------------------------------------------------------
(* Order of the tier roll-up *)

\* the division keys of the roll-up lines of tier t, in order of emission
SummaryKeys(out, t) ==
    Map(SelectSeq(out, LAMBDA b : b.kind = "summaryLine" /\ b.tier = t), LAMBDA b : b.key)

\* the division keys of the division sections, in order of emission
SectionKeys(out) == Map(Blocks(out, "division"), LAMBDA b : b.key)

Position(seq, x) == CHOOSE i \in 1..Len(seq) : seq[i] = x

\* C21 as stated: under each tier of the "Summary by Tier" roll-up the division
\* lines come in ascending division-number order, in the same relative order
\* as the division sections of the "Materials Analysis" part, whatever the
\* input order of the materials.
C21_RollUpInDivisionOrder ==
    mdOut # <<>> =>
        \A t \in Tiers :
            LET keys == SummaryKeys(mdOut[1], t)
                sections == SectionKeys(mdOut[1])
            IN  \A i, j \in 1..Len(keys) :
                    i < j =>
                        /\ DivisionNumber(keys[i]) <= DivisionNumber(keys[j])
                        /\ Position(sections, keys[i]) < Position(sections, keys[j])

-----------------------------------------------------------------------------
(* Brief section of the markdown report *)

ShortText(brief) == brief.textLen > 0 /\ brief.textLen < 500

\* C22 as stated: in the markdown brief section the intent is rendered if
\* present; the raw text is rendered otherwise, and only when it is shorter
\* than 500 characters; with an intent present the raw text does not appear,
\* and a raw text of 500 or more characters never appears.
C22_IntentElseShortText ==
    (mdOut # <<>> /\ HasBrief(analysis)) =>
        LET brief == analysis.brief[1]
            kinds == Kinds(mdOut[1])
        IN  /\ "briefIntent" \in kinds <=> brief.intent # <<>>
            /\ "briefText" \in kinds <=> (brief.intent = <<>> /\ ShortText(brief))

-----------------------------------------------------------------------------
(* Section order of the markdown report *)

\* the sections of the markdown report in their fixed order, each with the
\* kinds of the blocks that belong to it alone
MarkdownSections ==
    <<{"title", "generated", "imageCount"},
      {"brief", "briefIntent", "briefText"},
      {"location", "buildingCode"},
      {"summary"},
      {"materialsHeading", "division", "tierHeading", "material"},
      {"summaryByTier", "summaryTier", "summaryLine"},
      {"codeCompliance", "applicableCodes"},
      {"recommendations", "recLocation", "recAlternatives"},
      {"consultantsAppendix", "consultantTier", "consultant"},
      {"suppliersAppendix", "supplierTier", "supplier", "noLocalSuppliers",
       "nationalSuppliers"},
      {"attribution"}>>

SectionOf(kind) == CHOOSE n \in 1..Len(MarkdownSections) : kind \in MarkdownSections[n]

Sectioned(out) ==
    SelectSeq(out, LAMBDA b : \E n \in 1..Len(MarkdownSections) : b.kind \in MarkdownSections[n])

\* C23: generateMarkdownReport emits its sections in one fixed order: title
\* and timestamp, brief, location, project summary, division subsections, tier
\* roll-up, code-compliance block, recommendations, consultants appendix,
\* suppliers appendix, attribution; an optional section is absent or at its
\* place, the others are always there, and the attribution line is last.
C23_FixedSectionOrder ==
    mdOut # <<>> =>
        LET out == mdOut[1]
            blocks == Sectioned(out)
        IN  /\ \A i, j \in 1..Len(blocks) :
                  i < j => SectionOf(blocks[i].kind) <= SectionOf(blocks[j].kind)
            /\ out[1].kind = "title" /\ out[2].kind = "generated"
            /\ out[Len(out)].kind = "attribution"
            /\ Len(Blocks(out, "attribution")) = 1
            /\ {"summary", "summaryByTier", "recommendations", "consultantsAppendix"}
                  \subseteq Kinds(out)
            /\ "brief" \in Kinds(out) <=> HasBrief(analysis)
            /\ "location" \in Kinds(out) <=> HasLocation(analysis)
            /\ "codeCompliance" \in Kinds(out) <=> HasLocation(analysis)

\* a report with all eleven sections
C23_Witness ==
    /\ mdOut # <<>>
    /\ {SectionOf(b.kind) : b \in Range(Sectioned(mdOut[1]))} = 1..Len(MarkdownSections)

-----------------------------------------------------------------------------
(* Tier counts and consultant subsections *)

\* number of input materials of tier t
TierCount(t) == Cardinality({i \in 1..Len(analysis.materials) : analysis.materials[i].tier = t})

\* the tiers of the consultant subsections, in order of emission
ConsultantTiers(out) == Map(Blocks(out, "consultantTier"), LAMBDA b : b.tier)

SummaryCounts(out) ==
    LET summary == Blocks(out, "summary")[1]
    IN  <<summary.tier1, summary.tier2, summary.tier3>>

\* C24: in both renderers the consultants appendix has a subsection for tier k
\* exactly when a material of tier k exists, the subsections come in the order
\* tier 1, 2, 3, and the project summary gives the number of materials of each
\* tier; one tier-1 and one tier-3 material without location give the counts
\* 1, 0, 1, a tier-1 and a tier-3 subsection and no suppliers appendix.
C24_TierSubsections ==
    Rendered =>
        \A out \in {mdOut[1], pdfOut} :
            /\ ConsultantTiers(out) = SelectSeq(<<1, 2, 3>>, LAMBDA t : TierCount(t) > 0)
            /\ SummaryCounts(out) = <<TierCount(1), TierCount(2), TierCount(3)>>
            /\ ~HasLocation(analysis) => "suppliersAppendix" \notin Kinds(out)

\* the scenario of the claim
C24_Witness ==
    /\ Rendered
    /\ Map(analysis.materials, LAMBDA m : m.tier) = <<1, 3>>
    /\ ~HasLocation(analysis)
    /\ \A out \in {mdOut[1], pdfOut} :
          /\ SummaryCounts(out) = <<1, 0, 1>>
          /\ ConsultantTiers(out) = <<1, 3>>
          /\ "suppliersAppendix" \notin Kinds(out)

-----------------------------------------------------------------------------
(* Label/value fields of the cards *)

\* what the statement just executed drew, by role
DrawnAs(role) == SelectSeq(lastDraw, LAMBDA d : d.role = role)

SameLine(d, e) == d.page = e.page /\ d.y = e.y

\* the consultants the generator can return: any specialty of the taxonomy
\* table or the generic one, at any tier
TableSpecialties ==
    UNION {Range(divisionToSpecialty[d]) : d \in DOMAIN divisionToSpecialty}
    \cup {"General Consulting"}

\* C25: every label/value field of a material, consultant or supplier card is
\* drawn by one rule: a value of one line stands on the line of its label, a
\* value of several lines starts on the line after the label; the first line
\* of a multi-line value is never on the label's line.  The values of the
\* consultant cards, which are drawn next to the label at a fixed indent, are
\* built from the taxonomy table and take one line each.
C25_LabelValueRule ==
    /\ DrawnAs("label") # <<>> =>
          LET label == DrawnAs("label")[1]
              value == DrawnAs("value")
          IN  /\ Len(DrawnAs("label")) = 1
              /\ value # <<>>
              /\ Len(value) = 1 => SameLine(label, value[1])
              /\ Len(value) > 1 =>
                    /\ \A i \in 1..Len(value) : ~SameLine(label, value[i])
                    /\ \/ value[1].page > label.page
                       \/ value[1].page = label.page /\ value[1].y > label.y
    /\ \A specialty \in TableSpecialties, tier \in Tiers :
          LET consultant == ConsultantEntry(specialty, 0, tier)
          IN  /\ SplitLines(JoinedUnits(consultant.firm, " "), contentWidth - Mm(20)) = 1
              /\ SplitLines(JoinedUnits(consultant.specialty, " "),
                            contentWidth - Mm(25)) = 1
              /\ SplitLines(JoinedUnits(consultant.disciplines, ", "),
                            contentWidth - Mm(30)) = 1

\* the company of a local supplier in a place with a long name: the value
\* wraps and starts below the label
C25_Witness ==
    /\ pdfState = "running"
    /\ "supplier" \in Kinds(pdfOut)
    /\ analysis.location = <<LongRegion>>
    /\ Len(DrawnAs("label")) = 1
    /\ Len(DrawnAs("value")) > 1
    /\ ~SameLine(DrawnAs("label")[1], DrawnAs("value")[1])

-----------------------------------------------------------------------------
(* Scaling of the embedded image *)

Embedded == pdfState = "done" /\ "image" \in Kinds(pdfOut)

\* C26: an image that decodes with positive width w and height h is embedded
\* at most maxWidth (80 mm) wide and maxHeight (60 mm) high, after both
\* clamping steps, with width : height = w : h, and an image that is already
\* within the box keeps its dimensions.
C26_ImageWithinBox ==
    Embedded =>
        LET size == Blocks(pdfOut, "image")[1].size
            w == analysis.imageUrls[1].width
            h == analysis.imageUrls[1].height
        IN  /\ size.wd > 0 /\ size.hd > 0
            /\ size.wn <= maxWidth * size.wd
            /\ size.hn <= maxHeight * size.hd
            /\ size.wn * size.hd * h = size.hn * size.wd * w
            /\ (w <= maxWidth /\ h <= maxHeight) =>
                  (size.wn = w * size.wd /\ size.hn = h * size.hd)

\* an image too wide whose height is still too large after the first step
C26_Witness ==
    /\ Embedded
    /\ analysis.imageUrls[1].width > maxWidth
    /\ maxWidth * analysis.imageUrls[1].height > maxHeight * analysis.imageUrls[1].width
    /\ Blocks(pdfOut, "image")[1].size.hn = maxHeight
    /\ Blocks(pdfOut, "image")[1].size.wn < maxWidth * Blocks(pdfOut, "image")[1].size.wd

-----------------------------------------------------------------------------
(* The input is left as it was *)

\* C27: rendering never mutates its input: generateMarkdownReport and
\* buildPDFDocument leave analysis.materials with the same materials in the
\* same order (the in-place tier sort works on the per-division buckets), so
\* a later render sees the original input order.
C27_InputNotMutated == [][analysis'.materials = analysis.materials]_vars

\* both renderers have run on an input in which a division holds a material of
\* a higher tier before one of a lower tier, so that its bucket was re-ordered
C27_Witness ==
    /\ Rendered
    /\ \E i, j \in 1..Len(analysis.materials) :
          /\ i < j
          /\ DivisionKey(analysis.materials[i]) = DivisionKey(analysis.materials[j])
          /\ analysis.materials[i].tier > analysis.materials[j].tier
          /\ analysis.materials[i].name = Names[i]
          /\ analysis.materials[j].name = Names[j]
          /\ SortedHeap(analysis.materials)[DivisionKey(analysis.materials[i])]
                # GroupingHeap(analysis.materials)[DivisionKey(analysis.materials[i])]

-----------------------------------------------------------------------------
(* The report log of ReportModal *)

DownloadCalls(pc) == {c \in 1..Len(download.calls) : download.calls[c].pc = pc}

\* C28: a report log is sent only by a call whose generatePDFReport has
\* completed and only when a usage log id is present; a download that fails
\* sends no log; a failure of the log request raises no alert and does not
\* keep the download from completing: every completed call has saved its
\* document, whatever became of its log request, and alerts come from failed
\* downloads only.
C28_ReportLogAfterSuccess ==
    /\ \A c \in 1..Len(download.calls) :
          LET call == download.calls[c]
          IN  /\ call.log # "none" => (call.pc = "done" /\ download.logId)
              /\ call.pc = "failed" => call.log = "none"
              /\ (call.pc = "done" /\ download.logId) => call.log # "none"
    /\ download.alerts = Cardinality(DownloadCalls("failed"))
    /\ download.saved = Cardinality(DownloadCalls("done"))

\* one download has failed, another has completed and its log request failed
C28_Witness ==
    /\ download.logId
    /\ \E c, d \in 1..Len(download.calls) :
          /\ download.calls[c].pc = "failed"
          /\ download.calls[d].pc = "done"
          /\ download.calls[d].log = "failed"
    /\ download.alerts = 1
    /\ download.saved = 1

-----------------------------------------------------------------------------
(* Every material is rendered once *)

\* the names on the material sections or cards of a report, in order
MaterialNames(out) == Map(Blocks(out, "material"), LAMBDA b : b.name)

InputNames == {analysis.materials[i].name : i \in 1..Len(analysis.materials)}

\* C29: with all tiers in 1..3, every input material is rendered exactly once
\* as a material section of the markdown report and exactly once as a card of
\* the paginated report (grouping, sorting and tier filtering drop and
\* duplicate nothing), and the three tier counts of the summary add up to the
\* number of materials.
C29_EachMaterialOnce ==
    (Rendered /\ \A i \in 1..Len(analysis.materials) : analysis.materials[i].tier \in 1..3) =>
        /\ \A out \in {mdOut[1], pdfOut} :
              /\ Len(MaterialNames(out)) = Len(analysis.materials)
              /\ Range(MaterialNames(out)) = InputNames
              /\ SummaryCounts(out)[1] + SummaryCounts(out)[2] + SummaryCounts(out)[3]
                    = Len(analysis.materials)
        /\ Blocks(mdOut[1], "summary")[1].total = Len(analysis.materials)

\* two materials of one division in two tiers, the higher tier first
C29_Witness ==
    /\ Rendered
    /\ Len(analysis.materials) >= 2
    /\ DivisionKey(analysis.materials[1]) = DivisionKey(analysis.materials[2])
    /\ analysis.materials[1].tier > analysis.materials[2].tier
    /\ Len(MaterialNames(mdOut[1])) = Len(analysis.materials)
    /\ Len(MaterialNames(pdfOut)) = Len(analysis.materials)

-----------------------------------------------------------------------------
(* Every generated supplier is rendered once *)

\* the supplier entries or cards of a report, in order
SupplierBlocks(out) == Blocks(out, "supplier")

\* the entries of one sub-block never repeat, and neither do those of two
\* sub-blocks
EachSupplierOnce(out) ==
    \A i, j \in 1..Len(SupplierBlocks(out)) :
        SupplierBlocks(out)[i].entry = SupplierBlocks(out)[j].entry => i = j

\* suppliers rated national stand in the national sub-block (block 0) only
NationalOnlyInNationalBlock(out) ==
    \A i \in 1..Len(SupplierBlocks(out)) :
        SupplierBlocks(out)[i].entry.rating = "national" => SupplierBlocks(out)[i].tier = 0

\* no tier sub-block carries the "No local suppliers found" notice
NoFallbackNotice(out) == "noLocalSuppliers" \notin Kinds(out)

\* C30: in the markdown and in the paginated report every generated supplier
\* is rendered exactly once in the suppliers appendix: national suppliers
\* only in the national sub-block, not also in a tier sub-block, and a tier
\* sub-block with materials never shows the fallback notice.
C30_EachSupplierOnce ==
    Rendered =>
        \A out \in {mdOut[1], pdfOut} :
            /\ NationalOnlyInNationalBlock(out)
            /\ EachSupplierOnce(out)
            /\ NoFallbackNotice(out)

====
